---------------------------- MODULE Spec2Model ----------------------------
(***************************************************************************)
(* Kubeflake: the coordination-free ID generator of the shortener          *)
(* repository (package kubeflake), modelled from its Go source.            *)
(*                                                                         *)
(* Scale of the model.  TLC's integers are 32 bits wide, so the uint64     *)
(* word of the generator is modelled as an unsigned word of WordBits bits  *)
(* (all unsigned arithmetic is taken modulo 2^WordBits) and the generator  *)
(* whose NextID/Compose/Decompose are explored uses bit layouts that fit   *)
(* that word.  New's validation is modelled with the program's own         *)
(* constants (8..30, 3..16, 2..8, 32, 64).  Instants and durations are     *)
(* counted in grains of 1/Millisecond of a millisecond since the Unix      *)
(* origin; instants before that origin are negative.                       *)
(***************************************************************************)
EXTENDS Integers, Sequences, FiniteSets, TLC

VARIABLES
    kf,         \* the generator: the fields of struct Kubeflake
    now,        \* the reading of the clock source nowFunc, in grains
    mutex,      \* kf.mutex: the caller holding it, or Free
    pc,         \* per caller: its position in NextID
    overtime,   \* per caller: the local variable overtime of NextID
    sleepTime,  \* per caller: the duration handed to time.Sleep
    returned,   \* the result of the most recent NextID return
    held,       \* one ID some earlier NextID call returned, or NoID
    made,       \* the result of the most recent call of New
    last,       \* the most recent call of a pure operation and its result
    baseRegionZones,  \* package gcputil: the catalogue, region -> zone letters
    topRegionZones,   \* package gcputil: the pinned list, region -> letters
    Regions,          \* package gcputil: region name -> index
    Zones,            \* package gcputil: zone name -> index
    underlying,       \* package urlstore: the datastore, key -> stored JSON
    cache             \* package urlstore: the memcache, key -> item value

\* the package-level variables of gcputil
zoneVars == <<baseRegionZones, topRegionZones, Regions, Zones>>

\* what a CachedClient of package urlstore reads and writes
storeVars == <<underlying, cache>>

vars == <<kf, now, mutex, pc, overtime, sleepTime, returned, held, made, last,
          zoneVars, storeVars>>

----------------------------------------------------------------------------
(* Bounds of the model *)

\* width of the modelled unsigned word (uint64 in the source)
WordBits == 5

\* grains per millisecond: the resolution of instants and durations
Millisecond == 2

\* number of concurrent callers of NextID
NumCallers == 2

\* the width of the unsigned word the codec is explored on by itself: wide
\* enough for numbers of three base-62 digits
CodecBits == 13

----------------------------------------------------------------------------
(* Program constants: kubeflake.go *)

idBits == 64

\* a threshold one too low for the time bits
minTimeBitsLow == 32 - 1

minTimeBits == 32
minSequenceBits == 8
maxSequenceBits == 30
minClusterBits == 2
maxClusterBits == 8
maxMachineBits == 16
minMachineBits == 3

\* a default time unit of one millisecond
defaultTimeUnitShort == Millisecond

defaultTimeUnit == 10 * Millisecond
defaultBitsCluster == 3
defaultBitsMachine == 13
defaultBitsSequence == 9

NoErr == "nil"
ErrInvalidBitsTime == "ErrInvalidBitsTime"
ErrInvalidBitsSequence == "ErrInvalidBitsSequence"
ErrInvalidBitsMachineID == "ErrInvalidBitsMachineID"
ErrInvalidBitsClusterID == "ErrInvalidBitsClusterID"
ErrInvalidTimeUnit == "ErrInvalidTimeUnit"
ErrInvalidSequence == "ErrInvalidSequence"
ErrInvalidMachineID == "ErrInvalidMachineID"
ErrInvalidClusterID == "ErrInvalidClusterID"
ErrStartTimeAhead == "ErrStartTimeAhead"
ErrOverTimeLimit == "ErrOverTimeLimit"
ErrInvalidBase == "ErrInvalidBase"

----------------------------------------------------------------------------
(* Unsigned words and Go's integer operators *)

Word == 2 ^ WordBits

\* conversion uint64(x) of a signed integer: two's complement wrap-around
ToUint(x) == x % Word

\* Go's integer division truncates toward zero
TruncDiv(a, b) ==
    IF a >= 0 THEN a \div b ELSE 0 - ((0 - a) \div b)

\* Go's remainder has the sign of the dividend
TruncRem(a, b) == a - b * TruncDiv(a, b)

\* x << n on an unsigned word
Shl(x, n) == (x * (2 ^ n)) % Word

\* x >> n on an unsigned word
Shr(x, n) == x \div (2 ^ n)

RECURSIVE BitOr(_, _)
\* x | y on unsigned words
BitOr(x, y) ==
    IF x = 0 THEN y
    ELSE IF y = 0 THEN x
    ELSE 2 * BitOr(x \div 2, y \div 2) + (IF x % 2 = 1 \/ y % 2 = 1 THEN 1 ELSE 0)

RECURSIVE BitAnd(_, _)
\* x & y on unsigned words
BitAnd(x, y) ==
    IF x = 0 \/ y = 0 THEN 0
    ELSE 2 * BitAnd(x \div 2, y \div 2) + (IF x % 2 = 1 /\ y % 2 = 1 THEN 1 ELSE 0)

----------------------------------------------------------------------------
(* Instants: time.Time values, in grains since the Unix origin *)

\* the zero time.Time (IsZero): it precedes every instant of the model
ZeroTime == 0 - Word * Word

\* defaultEpochTime, 2025-01-01 00:00:00 UTC, placed on the model's time axis
defaultEpochTime == 6

\* t.After(u)
After(t, u) == t > u

\* t.IsZero()
IsZero(t) == t = ZeroTime

----------------------------------------------------------------------------
(* The generator: struct Kubeflake and its constructor New *)

\* the nil *Kubeflake that New returns beside an error
NilKubeflake == [nil |-> TRUE]

\* kf.toInternalTime(t): uint64(t.UTC().UnixNano() / kf.timeUnit)
toInternalTime(k, t) == ToUint(TruncDiv(t, k.timeUnit))

\* The assignments New makes once the settings passed validation: the bit
\* widths with their zero-value defaults, sequenceMask, bitsTime, timeUnit and
\* startTime.  bits is the width of the ID word (64 in New).
Configure(settings, bits) ==
    LET bc == IF settings.BitsCluster = 0 THEN defaultBitsCluster
              ELSE settings.BitsCluster
        bm == IF settings.BitsMachine = 0 THEN defaultBitsMachine
              ELSE settings.BitsMachine
        bs == IF settings.BitsSequence = 0 THEN defaultBitsSequence
              ELSE settings.BitsSequence
        tu == IF settings.TimeUnit = 0 THEN defaultTimeUnit
              ELSE settings.TimeUnit
        ep == IF IsZero(settings.EpochTime) THEN defaultEpochTime
              ELSE settings.EpochTime
    IN  [ machineId    |-> 0,
          clusterId    |-> 0,
          bitsTime     |-> bits - bc - bm - bs,
          bitsCluster  |-> bc,
          bitsMachine  |-> bm,
          bitsSequence |-> bs,
          sequenceMask |-> 2 ^ bs - 1,
          timeUnit     |-> tu,
          startTime    |-> toInternalTime([timeUnit |-> tu], ep),
          elapsedTime  |-> 0,
          sequence     |-> 0 ]

\* providers called in the other order
ProvideMachineFirst(k, settings) ==
    IF settings.MachineId.err # NoErr
    THEN [kf |-> NilKubeflake, err |-> settings.MachineId.err,
          invoked |-> <<"MachineId">>]
    ELSE IF settings.ClusterId.err # NoErr
    THEN [kf |-> NilKubeflake, err |-> settings.ClusterId.err,
          invoked |-> <<"MachineId", "ClusterId">>]
    ELSE [kf |-> [k EXCEPT !.clusterId = settings.ClusterId.val,
                           !.machineId = settings.MachineId.val],
          err |-> NoErr,
          invoked |-> <<"MachineId", "ClusterId">>]

\* The two identity providers are called in turn, the cluster one first; a
\* provider is modelled by the pair (val, err) it returns.
Provide(k, settings) ==
    IF settings.ClusterId.err # NoErr
    THEN [kf |-> NilKubeflake, err |-> settings.ClusterId.err,
          invoked |-> <<"ClusterId">>]
    ELSE IF settings.MachineId.err # NoErr
    THEN [kf |-> NilKubeflake, err |-> settings.MachineId.err,
          invoked |-> <<"ClusterId", "MachineId">>]
    ELSE [kf |-> [k EXCEPT !.clusterId = settings.ClusterId.val,
                           !.machineId = settings.MachineId.val],
          err |-> NoErr,
          invoked |-> <<"ClusterId", "MachineId">>]

\* a return of New before any provider was called
Reject(e) == [kf |-> NilKubeflake, err |-> e, invoked |-> <<>>]

\* the checks of New with the time unit and the epoch looked at first
NewUnitFirst(settings, clock) ==
    IF settings.TimeUnit < 0
          \/ (settings.TimeUnit > 0 /\ settings.TimeUnit < Millisecond)
    THEN Reject(ErrInvalidTimeUnit)
    ELSE IF After(settings.EpochTime, clock)
    THEN Reject(ErrStartTimeAhead)
    ELSE IF settings.BitsSequence < minSequenceBits
          \/ settings.BitsSequence > maxSequenceBits
    THEN Reject(ErrInvalidBitsSequence)
    ELSE IF settings.BitsMachine < minMachineBits
          \/ settings.BitsMachine > maxMachineBits
    THEN Reject(ErrInvalidBitsMachineID)
    ELSE IF settings.BitsCluster < minClusterBits
          \/ settings.BitsCluster > maxClusterBits
    THEN Reject(ErrInvalidBitsClusterID)
    ELSE LET k == Configure(settings, idBits)
         IN  IF k.bitsTime < minTimeBits
             THEN Reject(ErrInvalidBitsTime)
             ELSE Provide(k, settings)

\* New(settings), called when time.Now() reads clock
New(settings, clock) ==
    IF settings.BitsSequence < minSequenceBits
          \/ settings.BitsSequence > maxSequenceBits
    THEN Reject(ErrInvalidBitsSequence)
    ELSE IF settings.BitsMachine < minMachineBits
          \/ settings.BitsMachine > maxMachineBits
    THEN Reject(ErrInvalidBitsMachineID)
    ELSE IF settings.BitsCluster < minClusterBits
          \/ settings.BitsCluster > maxClusterBits
    THEN Reject(ErrInvalidBitsClusterID)
    ELSE IF settings.TimeUnit < 0
          \/ (settings.TimeUnit > 0 /\ settings.TimeUnit < Millisecond)
    THEN Reject(ErrInvalidTimeUnit)
    ELSE IF After(settings.EpochTime, clock)
    THEN Reject(ErrStartTimeAhead)
    ELSE LET k == Configure(settings, idBits)
         IN  IF k.bitsTime < minTimeBits
             THEN Reject(ErrInvalidBitsTime)
             ELSE Provide(k, settings)

----------------------------------------------------------------------------
(* NextID's building blocks *)

\* kf.currentElapsedTime(): an unsigned subtraction
currentElapsedTime(k, clock) ==
    ToUint(toInternalTime(k, clock) - k.startTime)

\* the duration kf.sleep(overtime) hands to time.Sleep; int64(overtime) is
\* the signed reading of the unsigned word
ToInt(x) == IF x >= Word \div 2 THEN x - Word ELSE x

sleepDuration(k, ot, clock) ==
    ToInt(ot) * k.timeUnit - TruncRem(clock, k.timeUnit)

\* a packing that leaves the cluster ID unshifted
toIDUnshifted(k) ==
    IF k.elapsedTime >= Shl(1, k.bitsTime)
    THEN [id |-> 0, err |-> ErrOverTimeLimit]
    ELSE [id |-> BitOr(BitOr(BitOr(
                    Shl(k.elapsedTime,
                        k.bitsSequence + k.bitsCluster + k.bitsMachine),
                    Shl(ToUint(k.sequence), k.bitsMachine + k.bitsCluster)),
                    ToUint(k.clusterId)),
                    ToUint(k.machineId)),
          err |-> NoErr]

\* kf.toID(): ErrOverTimeLimit, or the four fields packed into one word
toID(k) ==
    IF k.elapsedTime >= Shl(1, k.bitsTime)
    THEN [id |-> 0, err |-> ErrOverTimeLimit]
    ELSE LET r1 == Shl(k.elapsedTime,
                       k.bitsSequence + k.bitsCluster + k.bitsMachine)
             r2 == BitOr(r1, Shl(ToUint(k.sequence),
                                 k.bitsMachine + k.bitsCluster))
             r3 == BitOr(r2, Shl(ToUint(k.clusterId), k.bitsMachine))
             r4 == BitOr(r3, ToUint(k.machineId))
         IN  [id |-> r4, err |-> NoErr]

\* the state update of NextID between Lock and toID, reading the clock once:
\* the new generator, and whether the sequence wrapped (a sleep follows)
advance(k, clock) ==
    LET current == currentElapsedTime(k, clock)
    IN  IF k.elapsedTime < current
        THEN [kf |-> [k EXCEPT !.elapsedTime = current, !.sequence = 0],
              wrapped |-> FALSE, overtime |-> 0]
        ELSE LET seq == BitAnd(ToUint(k.sequence + 1), k.sequenceMask)
             IN  IF seq = 0
                 THEN LET e == ToUint(k.elapsedTime + 1)
                      IN  [kf |-> [k EXCEPT !.sequence = 0, !.elapsedTime = e],
                           wrapped |-> TRUE,
                           overtime |-> ToUint(e - current)]
                 ELSE [kf |-> [k EXCEPT !.sequence = seq],
                       wrapped |-> FALSE, overtime |-> 0]

----------------------------------------------------------------------------
(* Compose and Decompose *)

\* a range test that lets 2^bits itself through
outsideLax(v, bits) == v < 0 \/ v > 2 ^ bits

\* the range test v < 0 || v >= 1<<bits of Compose
outside(v, bits) == v < 0 \/ v >= 2 ^ bits

\* kf.Compose(t, sequence, machineID, clusterId)
Compose(k, t, sequence, machineID, clusterId) ==
    LET internalTime == toInternalTime(k, t)
        elapsedTime == ToUint(internalTime - k.startTime)
    IN  IF internalTime < k.startTime
        THEN [id |-> 0, err |-> ErrStartTimeAhead]
        ELSE IF elapsedTime >= Shl(1, k.bitsTime)
        THEN [id |-> 0, err |-> ErrOverTimeLimit]
        ELSE IF outside(sequence, k.bitsSequence)
        THEN [id |-> 0, err |-> ErrInvalidSequence]
        ELSE IF outside(clusterId, k.bitsCluster)
        THEN [id |-> 0, err |-> ErrInvalidClusterID]
        ELSE IF outside(machineID, k.bitsMachine)
        THEN [id |-> 0, err |-> ErrInvalidMachineID]
        ELSE [id |-> BitOr(BitOr(BitOr(
                        Shl(elapsedTime,
                            k.bitsSequence + k.bitsMachine + k.bitsCluster),
                        Shl(ToUint(sequence), k.bitsMachine + k.bitsCluster)),
                        Shl(ToUint(clusterId), k.bitsMachine)),
                        ToUint(machineID)),
              err |-> NoErr]

\* kf.timePart(id)
timePart(k, id) == Shr(id, k.bitsSequence + k.bitsCluster + k.bitsMachine)

\* kf.sequencePart(id)
sequencePart(k, id) ==
    LET maskSequence == (2 ^ k.bitsSequence - 1) * 2 ^ (k.bitsMachine + k.bitsCluster)
    IN  Shr(BitAnd(id, ToUint(maskSequence)), k.bitsMachine + k.bitsCluster)

\* kf.clusterPart(id)
clusterPart(k, id) ==
    LET maskCluster == (2 ^ k.bitsCluster - 1) * 2 ^ k.bitsMachine
    IN  Shr(BitAnd(id, ToUint(maskCluster)), k.bitsMachine)

\* a machine part whose mask is a bit short
machinePartNarrow(k, id) ==
    LET maskMachine == ToUint(2 ^ (k.bitsMachine - 1) - 1)
    IN  BitAnd(id, maskMachine)

\* kf.machinePart(id)
machinePart(k, id) ==
    LET maskMachine == ToUint(2 ^ k.bitsMachine - 1)
    IN  BitAnd(id, maskMachine)

\* kf.Decompose(id): the map of the four parts
Decompose(k, id) ==
    [ timestamp  |-> timePart(k, id),
      sequence   |-> sequencePart(k, id),
      machine_id |-> machinePart(k, id),
      cluster_id |-> clusterPart(k, id) ]

----------------------------------------------------------------------------
(* The Base62 codec and the key forms of Compose and Decompose *)

\* base62Chars; a string is modelled as the sequence of its characters
base62Chars ==
    << "0", "1", "2", "3", "4", "5", "6", "7", "8", "9",
       "A", "B", "C", "D", "E", "F", "G", "H", "I", "J", "K", "L", "M",
       "N", "O", "P", "Q", "R", "S", "T", "U", "V", "W", "X", "Y", "Z",
       "a", "b", "c", "d", "e", "f", "g", "h", "i", "j", "k", "l", "m",
       "n", "o", "p", "q", "r", "s", "t", "u", "v", "w", "x", "y", "z" >>

\* the radix, len(base62Chars)
Radix == Len(base62Chars)

RECURSIVE EncodeLoopAppending(_, _)
\* a loop that appends each digit, least significant first
EncodeLoopAppending(n, result) ==
    IF n > 0
    THEN EncodeLoopAppending(n \div Radix,
                             result \o <<base62Chars[(n % Radix) + 1]>>)
    ELSE result

RECURSIVE EncodeLoop(_, _)
\* the loop of Encode: prepend the digit of n % 62, go on with n / 62
EncodeLoop(n, result) ==
    IF n > 0
    THEN EncodeLoop(n \div Radix, <<base62Chars[(n % Radix) + 1]>> \o result)
    ELSE result

\* an Encode without its case for 0
EncodeLoopOnly(n) == EncodeLoop(n, <<>>)

\* Base62Encoder.Encode(n)
Encode(n) == IF n = 0 THEN <<"0">> ELSE EncodeLoop(n, <<>>)

\* a lookup that gives an unknown character the index 0
IndexByteLenient(char) ==
    IF \E i \in 1 .. Radix : base62Chars[i] = char
    THEN (CHOOSE i \in 1 .. Radix : base62Chars[i] = char) - 1
    ELSE 0

\* bytes.IndexByte(base62Bytes, char): the index from 0, or -1
IndexByte(char) ==
    IF \E i \in 1 .. Radix : base62Chars[i] = char
    THEN (CHOOSE i \in 1 .. Radix :
             /\ base62Chars[i] = char
             /\ \A j \in 1 .. i - 1 : base62Chars[j] # char) - 1
    ELSE 0 - 1

RECURSIVE DecodeLoop(_, _, _, _)
\* the loop of Decode from position i with the accumulator result, an
\* unsigned word of the given width
DecodeLoop(str, i, result, bits) ==
    IF i > Len(str) THEN [n |-> result, err |-> NoErr]
    ELSE LET index == IndexByte(str[i])
         IN  IF index = 0 - 1
             THEN [n |-> 0, err |-> ErrInvalidBase]
             ELSE DecodeLoop(str, i + 1,
                             (result * Radix + index) % (2 ^ bits), bits)

\* Base62Encoder.Decode(s) with a result word of the given width
DecodeWord(str, bits) == DecodeLoop(str, 1, 0, bits)

\* Base62Encoder.Decode(s) on the word of the generator
Decode(str) == DecodeWord(str, WordBits)

\* kf.ComposeKey(t, sequence, machineID, clusterId)
ComposeKey(k, t, sequence, machineID, clusterId) ==
    LET c == Compose(k, t, sequence, machineID, clusterId)
    IN  IF c.err # NoErr
        THEN [key |-> <<>>, err |-> c.err]
        ELSE [key |-> Encode(c.id), err |-> NoErr]

\* kf.NextKey(), given what its call of kf.NextID() returned: the error
\* with an empty key, or the encoding of the ID
NextKey(res) ==
    IF res.err # NoErr
    THEN [key |-> <<>>, err |-> res.err]
    ELSE [key |-> Encode(res.id), err |-> NoErr]

\* the nil map DecomposeKey returns beside an error
NilParts == [nil |-> TRUE]

\* kf.DecomposeKey(key)
DecomposeKey(k, key) ==
    LET d == Decode(key)
    IN  IF d.err # NoErr
        THEN [parts |-> NilParts, err |-> d.err]
        ELSE [parts |-> Decompose(k, d.n), err |-> NoErr]

----------------------------------------------------------------------------
(* The generators whose operations are explored *)

Callers == 1 .. NumCallers

\* a successful identity provider returning v
Const(v) == [val |-> v, err |-> NoErr]

\* the bit widths (sequence, cluster, machine) of the explored generators;
\* the time field takes the rest of the word
Layouts == { <<2, 1, 1>>, <<1, 1, 2>> }

\* number of time bits of the explored generators
TimeBits == WordBits - 4

\* the instants the clock source reads: from the Unix origin, one tick before
\* the epoch of the explored generators, to the first tick the time field of
\* the ID cannot hold
MaxInstant == (2 ^ TimeBits + 2) * Millisecond - 1

Instants == 0 .. MaxInstant

\* the identities (clusterId, machineId) the providers return: the least and
\* the greatest of each field
Identities(l) == { <<0, 0>>, <<2 ^ l[2] - 1, 2 ^ l[3] - 1>> }

\* each layout with each of its identities
Equipped == UNION { { <<l, i>> : i \in Identities(l) } : l \in Layouts }

\* the Settings with layout l, identities i, time unit u and epoch ep
SettingsOf(l, i, u, ep) ==
    [ BitsSequence |-> l[1], BitsCluster |-> l[2], BitsMachine |-> l[3],
      TimeUnit |-> u, EpochTime |-> ep,
      ClusterId |-> Const(i[1]), MachineId |-> Const(i[2]) ]

\* settings of the explored generators, with the epoch d grains after the
\* first tick boundary
GenSettings(units, offsets) ==
    { SettingsOf(li[1], li[2], u, u + d) :
      li \in Equipped, u \in units, d \in offsets }

\* the generator New builds from such settings (the width checks of New are
\* for 64-bit IDs and are not applied to the narrow word)
Build(settings) == Provide(Configure(settings, WordBits), settings).kf

\* whether the identities of k fit their fields
InRange(k) ==
    /\ k.clusterId >= 0 /\ k.clusterId < 2 ^ k.bitsCluster
    /\ k.machineId >= 0 /\ k.machineId < 2 ^ k.bitsMachine

----------------------------------------------------------------------------
(* NextID as a state machine: callers, mutex, clock *)

Idle(p) == pc[p] = "idle"

\* a map with no entries
EmptyMap == [x \in {} |-> 0]

\* package gcputil is no part of the program explored: its variables hold
\* nothing
NoGcputil ==
    /\ baseRegionZones = EmptyMap
    /\ topRegionZones = EmptyMap
    /\ Regions = EmptyMap
    /\ Zones = EmptyMap

\* package urlstore is no part of the program explored: the datastore and
\* the memcache hold nothing
NoUrlstore ==
    /\ underlying = EmptyMap
    /\ cache = EmptyMap

\* the frame of the variables NextID never touches
NoCalls == UNCHANGED <<made, last, zoneVars, storeVars>>

\* a goroutine calls kf.NextID()
Call(p) ==
    /\ pc[p] = "idle"
    /\ pc' = [pc EXCEPT ![p] = "lock"]
    /\ UNCHANGED <<kf, now, mutex, overtime, sleepTime, returned, held>>
    /\ NoCalls

\* a Lock that does not wait for the holder of the mutex
LockUnguarded(p) ==
    /\ pc[p] = "lock"
    /\ mutex' = TRUE
    /\ pc' = [pc EXCEPT ![p] = "locked"]
    /\ UNCHANGED <<kf, now, overtime, sleepTime, returned, held>>
    /\ NoCalls

\* kf.mutex.Lock()
Lock(p) ==
    /\ pc[p] = "lock"
    /\ ~mutex
    /\ mutex' = TRUE
    /\ pc' = [pc EXCEPT ![p] = "locked"]
    /\ UNCHANGED <<kf, now, overtime, sleepTime, returned, held>>
    /\ NoCalls

\* the ID an earlier call returned that is kept for comparison: when
\* track, the result being replaced may take the place of the one held
Remember(track) ==
    IF track
    THEN held' \in {held} \cup {{r.id} : r \in {x \in returned : x.err = NoErr}}
    ELSE held' = held

\* a return that leaves the mutex locked
ReturnLocked(p, k, track) ==
    /\ returned' = {toID(k)}
    /\ Remember(track)
    /\ mutex' = mutex
    /\ pc' = [pc EXCEPT ![p] = "idle"]

\* return kf.toID(), with the deferred kf.mutex.Unlock()
Return(p, k, track) ==
    /\ returned' = {toID(k)}
    /\ Remember(track)
    /\ mutex' = FALSE
    /\ pc' = [pc EXCEPT ![p] = "idle"]

\* the body of NextID under the lock: read the clock, move the tick or the
\* sequence; return unless the sequence wrapped
Advance(p, track) ==
    /\ pc[p] = "locked"
    /\ LET a == advance(kf, now)
       IN  /\ kf' = a.kf
           /\ IF a.wrapped
              THEN /\ overtime' = [overtime EXCEPT ![p] = a.overtime]
                   /\ pc' = [pc EXCEPT ![p] = "sleep"]
                   /\ UNCHANGED <<mutex, returned, held>>
              ELSE /\ Return(p, a.kf, track)
                   /\ UNCHANGED overtime
    /\ UNCHANGED <<now, sleepTime>>
    /\ NoCalls

\* kf.sleep(overtime): read the clock again and call time.Sleep
Sleep(p) ==
    /\ pc[p] = "sleep"
    /\ sleepTime' = [sleepTime EXCEPT ![p] = sleepDuration(kf, overtime[p], now)]
    /\ pc' = [pc EXCEPT ![p] = "sleeping"]
    /\ UNCHANGED <<kf, now, mutex, overtime, returned, held>>
    /\ NoCalls

\* time.Sleep returns; NextID returns kf.toID()
Wake(p, track) ==
    /\ pc[p] = "sleeping"
    /\ Return(p, kf, track)
    /\ overtime' = [overtime EXCEPT ![p] = 0]
    /\ sleepTime' = [sleepTime EXCEPT ![p] = 0]
    /\ UNCHANGED <<kf, now>>
    /\ NoCalls

\* the clock source moves on by a grain (longer advances are several of
\* these, with no read of the clock in between)
ClockForward ==
    /\ now < MaxInstant
    /\ now' = now + 1
    /\ UNCHANGED <<kf, mutex, pc, overtime, sleepTime, returned, held>>
    /\ NoCalls

\* the clock source is set back by a grain
ClockBack ==
    /\ now > 0
    /\ now' = now - 1
    /\ UNCHANGED <<kf, mutex, pc, overtime, sleepTime, returned, held>>
    /\ NoCalls

\* the state after New: the clock was not before the epoch when New checked
\* it, no caller is inside NextID, nothing was returned yet
Start(units, offsets) ==
    /\ \E s \in GenSettings(units, offsets) :
          /\ kf = Build(s)
          /\ now \in {t \in Instants : ~After(s.EpochTime, t)}
    /\ mutex = FALSE
    /\ pc = [p \in Callers |-> "idle"]
    /\ overtime = [p \in Callers |-> 0]
    /\ sleepTime = [p \in Callers |-> 0]
    /\ returned = {}
    /\ held = {}
    /\ made = {}
    /\ last = {}
    /\ NoGcputil
    /\ NoUrlstore

Init == Start({Millisecond}, {0})

Next ==
    \/ \E p \in Callers : Call(p)
    \/ \E p \in Callers : Lock(p)
    \/ \E p \in Callers : Advance(p, FALSE)
    \/ \E p \in Callers : Sleep(p)
    \/ \E p \in Callers : Wake(p, FALSE)
    \/ ClockForward
    \/ ClockBack

Spec == Init /\ [][Next]_vars

\* the same steps, with an earlier returned ID kept for comparison
NextHist ==
    \/ \E p \in Callers : Call(p)
    \/ \E p \in Callers : Lock(p)
    \/ \E p \in Callers : Advance(p, TRUE)
    \/ \E p \in Callers : Sleep(p)
    \/ \E p \in Callers : Wake(p, TRUE)
    \/ ClockForward
    \/ ClockBack

SpecHist == Init /\ [][NextHist]_vars

\* the ID kept for comparison is the last one returned before the latest
\* result: a result that is replaced takes its place if it is an ID
KeepsLast ==
    held' = IF returned' # returned \/ \E p \in Callers :
                                          pc[p] # "idle" /\ pc'[p] = "idle"
            THEN IF \E r \in returned : r.err = NoErr
                 THEN {r.id : r \in returned}
                 ELSE held
            ELSE held

\* the same steps, with the ID returned last kept for comparison
NextLast == NextHist /\ KeepsLast

SpecLast == Init /\ [][NextLast]_vars

\* a generator New built from providers that return the greatest identities
\* of the layout or, for one of the two, the first value past its field
InitAny ==
    /\ \E l \in Layouts :
          \E i \in { <<2 ^ l[2] - 1, 2 ^ l[3] - 1>>,
                      <<2 ^ l[2], 2 ^ l[3] - 1>>,
                      <<2 ^ l[2] - 1, 2 ^ l[3]>> } :
             LET s == SettingsOf(l, i, Millisecond, Millisecond)
             IN  /\ kf = Build(s)
                 /\ now \in {t \in Instants : ~After(s.EpochTime, t)}
    /\ mutex = FALSE
    /\ pc = [p \in Callers |-> "idle"]
    /\ overtime = [p \in Callers |-> 0]
    /\ sleepTime = [p \in Callers |-> 0]
    /\ returned = {}
    /\ held = {}
    /\ made = {}
    /\ last = {}
    /\ NoGcputil
    /\ NoUrlstore

\* NextID on the generators of providers of every kind
SpecAny == InitAny /\ [][Next]_vars

\* the clock source moves on by a grain, and so does the time every
\* time.Sleep under way has left
Elapse ==
    /\ now < MaxInstant
    /\ now' = now + 1
    /\ sleepTime' = [p \in Callers |->
                        IF pc[p] = "sleeping" /\ sleepTime[p] > 0
                        THEN sleepTime[p] - 1
                        ELSE sleepTime[p]]
    /\ UNCHANGED <<kf, mutex, pc, overtime, returned, held>>
    /\ NoCalls

\* a time.Sleep that returns at once
WakeEarly(p) == Wake(p, FALSE)

\* time.Sleep(sleepTime) returns once the duration has passed (at once when
\* it is zero or negative); NextID returns kf.toID()
WakeDue(p) ==
    /\ sleepTime[p] <= 0
    /\ Wake(p, FALSE)

\* NextID with a clock that never moves back
NextForward ==
    \/ \E p \in Callers : Call(p)
    \/ \E p \in Callers : Lock(p)
    \/ \E p \in Callers : Advance(p, FALSE)
    \/ \E p \in Callers : Sleep(p)
    \/ \E p \in Callers : WakeDue(p)
    \/ Elapse

SpecForward == Init /\ [][NextForward]_vars

\* the clock source keeps moving on: as Elapse, but every instant after
\* MaxInstant is read as MaxInstant (the time field is exhausted by then, so
\* NextID returns ErrOverTimeLimit at each of them alike)
ElapseOn ==
    /\ now' = IF now < MaxInstant THEN now + 1 ELSE now
    /\ sleepTime' = [p \in Callers |->
                        IF pc[p] = "sleeping" /\ sleepTime[p] > 0
                        THEN sleepTime[p] - 1
                        ELSE sleepTime[p]]
    /\ UNCHANGED <<kf, mutex, pc, overtime, returned, held>>
    /\ NoCalls

\* the generators with the greatest identities of their layout, with the
\* clock at the tick of the epoch
InitLive ==
    /\ Init
    /\ now = kf.startTime * kf.timeUnit
    /\ kf.machineId = 2 ^ kf.bitsMachine - 1

NextLive ==
    \/ \E p \in Callers : Call(p)
    \/ \E p \in Callers : Lock(p)
    \/ \E p \in Callers : Advance(p, FALSE)
    \/ \E p \in Callers : Sleep(p)
    \/ \E p \in Callers : WakeDue(p)
    \/ ElapseOn

\* NextID under fair scheduling: the goroutine that holds the lock runs on
\* (weak fairness of its steps; no other goroutine has a step of these
\* enabled), sync.Mutex hands the lock to a goroutine that keeps waiting for
\* it (strong fairness of Lock), and the clock keeps moving on
SpecLive ==
    /\ InitLive
    /\ [][NextLive]_vars
    /\ \A p \in Callers : SF_vars(Lock(p))
    /\ WF_vars(\E p \in Callers :
                  Advance(p, FALSE) \/ Sleep(p) \/ WakeDue(p))
    /\ WF_vars(ElapseOn)

----------------------------------------------------------------------------
(* Properties of NextID *)

\* C1: with clusterId and machineId within their widths, and for every
\* behaviour of the clock, each successful NextID call returns a value
\* strictly greater than the value of every earlier successful call.
C1_StrictlyIncreasing ==
    InRange(kf) =>
        \A r \in returned : \A h \in held :
            r.err = NoErr => r.id > h

\* C2: all IDs returned to the concurrent callers of one generator (with
\* clusterId and machineId within their widths) are pairwise distinct.
C2_PairwiseDistinct ==
    InRange(kf) =>
        \A r \in returned : \A h \in held :
            r.err = NoErr => r.id # h

\* the identities that fit the fields of layout l
FittingIdentities(l) == (0 .. 2 ^ l[2] - 1) \X (0 .. 2 ^ l[3] - 1)

\* the generator New builds for layout l and identities i, at tick e of its
\* time field with sequence number q
GeneratorAt(l, i, e, q) ==
    [ Build(SettingsOf(l, i, Millisecond, Millisecond))
        EXCEPT !.elapsedTime = e, !.sequence = q ]

\* the IDs a generator with layout l and identities i returns, whatever its
\* clock and its calls were: toID at any tick of the time field and any
\* sequence number
PeerIDs ==
    [ l \in Layouts |->
        [ i \in FittingIdentities(l) |->
            { toID(GeneratorAt(l, i, e, q)).id :
              e \in 0 .. 2 ^ (WordBits - l[1] - l[2] - l[3]) - 1,
              q \in 0 .. 2 ^ l[1] - 1 } ] ]

\* C3: two generators with the same widths, time unit and epoch whose
\* (clusterId, machineId) pairs differ and fit their fields never return
\* the same ID, whatever their clocks and calls are.
C3_DistinctAcrossInstances ==
    InRange(kf) =>
        LET l == <<kf.bitsSequence, kf.bitsCluster, kf.bitsMachine>>
        IN  \A r \in returned :
                r.err = NoErr =>
                    \A i \in FittingIdentities(l) :
                        i # <<kf.clusterId, kf.machineId>>
                            => r.id \notin PeerIDs[l][i]

\* a generator with the greatest identities has returned an ID with a tick
\* and a sequence number above 0, which a peer can reach as well
C3_Witness ==
    /\ kf.clusterId = 2 ^ kf.bitsCluster - 1
    /\ kf.machineId = 2 ^ kf.bitsMachine - 1
    /\ \E r \in returned :
          /\ r.err = NoErr
          /\ timePart(kf, r.id) > 0
          /\ sequencePart(kf, r.id) > 0

\* C11: once a NextID call has returned ErrOverTimeLimit, every later NextID
\* and NextKey call returns ErrOverTimeLimit too, with ID 0 and an empty key,
\* whatever the clock does: the call that returns next after such a return
\* fails the same way.
C11_OverTimeLimitNeverClears ==
    [][ (\E r \in returned : r.err = ErrOverTimeLimit)
          => \A r \in returned' :
                /\ r = [id |-> 0, err |-> ErrOverTimeLimit]
                /\ NextKey(r) = [key |-> <<>>, err |-> ErrOverTimeLimit] ]_vars

\* C15: the key a NextKey call returns is the encoding of the ID its one
\* NextID call returned, so the IDs decoded from the keys of successive
\* NextKey calls on one generator are strictly increasing.
C15_KeysDecodeIncreasing ==
    InRange(kf) =>
        \A r \in returned :
            r.err = NoErr =>
                LET k == NextKey(r)
                IN  /\ k = [key |-> Encode(r.id), err |-> NoErr]
                    /\ Decode(k.key) = [n |-> r.id, err |-> NoErr]
                    /\ \A h \in held : Decode(k.key).n > h

\* the callers between kf.mutex.Lock() and the return of NextID
Holders == {p \in Callers : pc[p] \in {"locked", "sleep", "sleeping"}}

\* C29: at most one NextID call is between taking the lock and returning,
\* and the mutex is held exactly then; only that call changes the
\* generator's elapsedTime and sequence, and does so in its step under the
\* lock before any sleep; while a caller stays in the sleep of an exhausted
\* sequence the generator is not touched and no ID is returned.
C29_OneCallUnderLock ==
    [][ /\ Cardinality(Holders') <= 1
        /\ mutex' <=> Holders' # {}
        /\ kf' # kf =>
              \E p \in Callers : Holders = {p} /\ pc[p] = "locked"
        /\ returned' # returned =>
              \E p \in Callers : Holders = {p} /\ pc'[p] = "idle"
        /\ (\E p \in Callers : /\ pc[p] \in {"sleep", "sleeping"}
                                /\ pc'[p] \in {"sleep", "sleeping"})
              => /\ kf' = kf
                 /\ returned' = returned
                 /\ \A q \in Callers : pc[q] = "lock" => pc'[q] = "lock" ]_vars

\* a caller sleeps with the lock after the sequence wrapped while another
\* waits for the lock
C29_Witness ==
    \E p, q \in Callers :
        /\ pc[p] = "sleeping"
        /\ pc[q] = "lock"
        /\ kf.sequence = 0
        /\ mutex

\* the elapsed tick of the wall clock: the tick of clock counted from the
\* tick of the epoch
WallTick(k, clock) == clock \div k.timeUnit - k.startTime

\* C30: with a clock that never moves back, whenever NextID returns an ID,
\* straight away or after the sleep of an exhausted sequence, the time
\* field of the ID is at most the elapsed tick of the wall clock at that
\* moment.
C30_NoIDAheadOfClock ==
    [][ \A p \in Callers :
          (pc[p] \in {"locked", "sleeping"} /\ pc'[p] = "idle") =>
             \A r \in returned' :
                r.err = NoErr =>
                   Decompose(kf', r.id).timestamp <= WallTick(kf', now') ]_vars

\* an ID has been returned for a tick after the first, with the first
\* sequence number, in the first grain of that tick
C30_Witness ==
    /\ \A p \in Callers : pc[p] = "idle"
    /\ now % kf.timeUnit = 0
    /\ kf.sequence = 0
    /\ kf.elapsedTime = WallTick(kf, now)
    /\ kf.elapsedTime > 0
    /\ \E r \in returned :
          r.err = NoErr /\ Decompose(kf, r.id).timestamp = kf.elapsedTime

\* C31: the duration kf.sleep hands to time.Sleep after the sequence is
\* exhausted is positive and at most one time unit, in every reachable state.
C31_SleepWithinOneUnit ==
    \A p \in Callers :
        pc[p] = "sleeping" =>
            sleepTime[p] > 0 /\ sleepTime[p] <= kf.timeUnit

\* C32: no step of NextID makes the generator's elapsedTime smaller,
\* whatever the clock reads and whatever error the call returns.
C32_ElapsedTimeNeverDecreases ==
    [][kf'.elapsedTime >= kf.elapsedTime]_vars

\* C33: the sequence counter stays within its field; an ID whose time field
\* is greater than that of the ID returned before it has sequence field 0,
\* and an ID with the same time field as the ID returned before it has that
\* ID's sequence field plus one.
C33_SequenceFollowsTick ==
    /\ kf.sequence >= 0 /\ kf.sequence <= 2 ^ kf.bitsSequence - 1
    /\ \A r \in returned : \A h \in held :
          r.err = NoErr =>
             LET new == Decompose(kf, r.id)
                 old == Decompose(kf, h)
             IN  /\ new.timestamp > old.timestamp => new.sequence = 0
                 /\ new.timestamp = old.timestamp =>
                       new.sequence = old.sequence + 1

\* C34: under fair scheduling and a clock that keeps moving on, every call
\* of NextID returns, with an ID or with ErrOverTimeLimit: at every moment
\* each caller is, or will later be, outside NextID (which is the same as
\* pc[p] # "idle" ~> pc[p] = "idle").
C34_EveryCallReturns ==
    \A p \in Callers : []<>(pc[p] = "idle")

\* a call that slept with the lock has returned ErrOverTimeLimit and
\* released the lock, and the other callers wait for it
C34_Witness ==
    /\ ~mutex
    /\ pc[1] = "idle"
    /\ \A p \in Callers \ {1} : pc[p] = "lock"
    /\ overtime[1] = 0 /\ sleepTime[1] = 0
    /\ kf.sequence = 0
    /\ \E r \in returned : r.err = ErrOverTimeLimit

\* the instant at the start of tick e of generator k
TickStart(k, e) == (k.startTime + e) * k.timeUnit

\* C35: an ID that NextID returns has the layout of Compose: Decompose of it
\* gives the generator's elapsedTime, sequence, machineId and clusterId at
\* the return, and Compose gives the same ID for those four values.
C35_NextIDUsesComposeLayout ==
    [][ \A p \in Callers :
          (pc[p] \in {"locked", "sleeping"} /\ pc'[p] = "idle") =>
             \A r \in returned' :
                r.err = NoErr =>
                   /\ Decompose(kf', r.id) =
                         [ timestamp  |-> kf'.elapsedTime,
                           sequence   |-> kf'.sequence,
                           machine_id |-> kf'.machineId,
                           cluster_id |-> kf'.clusterId ]
                   /\ Compose(kf', TickStart(kf', kf'.elapsedTime),
                              kf'.sequence, kf'.machineId, kf'.clusterId)
                         = [id |-> r.id, err |-> NoErr] ]_vars

----------------------------------------------------------------------------
(* New, applied to settings of every kind *)

\* an identity provider that fails with error e
Failing(e) == [val |-> 0, err |-> e]

\* Settings values: each width unset, below, at and above its limits; the
\* time unit negative, unset, under a millisecond, a millisecond and more;
\* the epoch zero, before, at and after the clock; providers that return
\* small and large identities or fail
NewSettings(clock) ==
    { [ BitsSequence |-> bs, BitsCluster |-> bc, BitsMachine |-> bm,
        TimeUnit |-> tu, EpochTime |-> ep, ClusterId |-> cl, MachineId |-> ma ] :
      bs \in {0, minSequenceBits - 1, minSequenceBits, defaultBitsSequence,
              maxSequenceBits, maxSequenceBits + 1},
      bc \in {0, minClusterBits - 1, minClusterBits, defaultBitsCluster,
              maxClusterBits, maxClusterBits + 1},
      bm \in {0, minMachineBits - 1, minMachineBits, defaultBitsMachine,
              maxMachineBits, maxMachineBits + 1},
      tu \in {0 - Millisecond, 0, Millisecond - 1, Millisecond, defaultTimeUnit},
      ep \in {ZeroTime, clock - 2, clock, clock + 1},
      cl \in {Const(3), Const(4), Const(2 ^ maxClusterBits),
              Failing("errCluster")},
      ma \in {Const(7), Const(8), Const(2 ^ maxMachineBits),
              Failing("errMachine")} }

\* the instants at which New is called
NewClocks == {defaultEpochTime - 1, defaultEpochTime + 2}

\* a call of New that has its arguments and has not run yet
PendingNew(s, clock) ==
    [settings |-> s, clock |-> clock, done |-> FALSE, out |-> Reject(NoErr)]

\* the call New(settings) runs
CallNew ==
    /\ \E c \in made :
          /\ ~c.done
          /\ made' = {[c EXCEPT !.done = TRUE, !.out = New(c.settings, c.clock)]}
    /\ UNCHANGED <<kf, now, mutex, pc, overtime, sleepTime, returned, held, last,
                   zoneVars, storeVars>>

InitNew ==
    /\ now \in NewClocks
    /\ made \in {{PendingNew(s, now)} : s \in NewSettings(now)}
    /\ kf = NilKubeflake
    /\ mutex = FALSE
    /\ pc = [p \in Callers |-> "idle"]
    /\ overtime = [p \in Callers |-> 0]
    /\ sleepTime = [p \in Callers |-> 0]
    /\ returned = {}
    /\ held = {}
    /\ last = {}
    /\ NoGcputil
    /\ NoUrlstore

NextNew == CallNew

SpecNew == InitNew /\ [][NextNew]_vars

----------------------------------------------------------------------------
(* Compose and Decompose, applied to arguments of every kind *)

\* how far before the Unix origin the time arguments and the epochs of the
\* explored calls reach, in grains
PreOrigin == 3 * (Millisecond + 1)

\* the instants handed to Compose: from before the Unix origin to the first
\* tick past the time field, for the longest time unit
ComposeInstants ==
    (0 - PreOrigin) .. ((2 ^ TimeBits + 2) * (Millisecond + 1) - 1)

\* the sequence, machine and cluster arguments: negative, within every
\* field, 2^bits and beyond
FieldArgs == (0 - 1) .. 5

\* a call of Compose or ComposeKey on a generator with the given epoch that
\* has its arguments and has not run yet
PendingCompose(op, epoch, t, sequence, machineID, clusterId) ==
    [ op |-> op, epoch |-> epoch, t |-> t, sequence |-> sequence,
      machineID |-> machineID, clusterId |-> clusterId,
      stage |-> "called",
      out |-> [id |-> 0, key |-> <<>>, err |-> NoErr],
      back |-> [parts |-> NilParts, err |-> NoErr] ]

\* a Compose that waits for the lock of the generator
DoComposeLocking ==
    /\ ~mutex
    /\ \E c \in last :
          /\ c.op = "Compose" /\ c.stage = "called"
          /\ LET r == Compose(kf, c.t, c.sequence, c.machineID, c.clusterId)
             IN  last' = {[c EXCEPT !.stage = "composed",
                                    !.out = [id |-> r.id, key |-> <<>>,
                                             err |-> r.err]]}
    /\ UNCHANGED <<kf, now, mutex, pc, overtime, sleepTime, returned, held, made,
                   zoneVars, storeVars>>

\* the call kf.Compose(t, sequence, machineID, clusterId) runs
DoCompose ==
    /\ \E c \in last :
          /\ c.op = "Compose" /\ c.stage = "called"
          /\ LET r == Compose(kf, c.t, c.sequence, c.machineID, c.clusterId)
             IN  last' = {[c EXCEPT !.stage = "composed",
                                    !.out = [id |-> r.id, key |-> <<>>,
                                             err |-> r.err]]}
    /\ UNCHANGED <<kf, now, mutex, pc, overtime, sleepTime, returned, held, made,
                   zoneVars, storeVars>>

\* kf.Decompose(id) runs on the ID Compose returned
DoDecompose ==
    /\ \E c \in last :
          /\ c.op = "Compose" /\ c.stage = "composed" /\ c.out.err = NoErr
          /\ last' = {[c EXCEPT !.stage = "decomposed",
                                !.back = [parts |-> Decompose(kf, c.out.id),
                                          err |-> NoErr]]}
    /\ UNCHANGED <<kf, now, mutex, pc, overtime, sleepTime, returned, held, made,
                   zoneVars, storeVars>>

\* the call kf.ComposeKey(t, sequence, machineID, clusterId) runs
DoComposeKey ==
    /\ \E c \in last :
          /\ c.op = "ComposeKey" /\ c.stage = "called"
          /\ LET r == ComposeKey(kf, c.t, c.sequence, c.machineID, c.clusterId)
             IN  last' = {[c EXCEPT !.stage = "composed",
                                    !.out = [id |-> 0, key |-> r.key,
                                             err |-> r.err]]}
    /\ UNCHANGED <<kf, now, mutex, pc, overtime, sleepTime, returned, held, made,
                   zoneVars, storeVars>>

\* kf.DecomposeKey(key) runs on the key ComposeKey returned
DoDecomposeKey ==
    /\ \E c \in last :
          /\ c.op = "ComposeKey" /\ c.stage = "composed" /\ c.out.err = NoErr
          /\ last' = {[c EXCEPT !.stage = "decomposed",
                                !.back = DecomposeKey(kf, c.out.key)]}
    /\ UNCHANGED <<kf, now, mutex, pc, overtime, sleepTime, returned, held, made,
                   zoneVars, storeVars>>

\* a generator after New, with its epoch on a tick boundary or a grain after
\* it and a time unit of one millisecond or a grain more, and one pending call
InitPure ==
    /\ \E s \in GenSettings({Millisecond, Millisecond + 1},
                            {0, 1, 0 - PreOrigin}) :
          /\ kf = Build(s)
          /\ InRange(kf)
          /\ now = s.EpochTime
          /\ \E op \in {"Compose", "ComposeKey"}, t \in ComposeInstants,
                sq \in FieldArgs, ma \in FieldArgs, cl \in FieldArgs :
                last = {PendingCompose(op, s.EpochTime, t, sq, ma, cl)}
    /\ mutex = FALSE
    /\ pc = [p \in Callers |-> "idle"]
    /\ overtime = [p \in Callers |-> 0]
    /\ sleepTime = [p \in Callers |-> 0]
    /\ returned = {}
    /\ held = {}
    /\ made = {}
    /\ NoGcputil
    /\ NoUrlstore

NextPure ==
    \/ DoCompose
    \/ DoDecompose
    \/ DoComposeKey
    \/ DoDecomposeKey

SpecPure == InitPure /\ [][NextPure]_vars

----------------------------------------------------------------------------
(* Compose and Decompose beside a running NextID *)

\* a generator after New at its epoch, with the greatest identities of its
\* layout, one pending call of Compose or ComposeKey made by a goroutine of
\* its own, and a caller of NextID
InitMixed ==
    /\ \E l \in Layouts :
          LET s == SettingsOf(l, <<2 ^ l[2] - 1, 2 ^ l[3] - 1>>, Millisecond,
                              Millisecond)
          IN  /\ kf = Build(s)
              /\ now = s.EpochTime
              /\ \E op \in {"Compose", "ComposeKey"} :
                    last = {PendingCompose(op, s.EpochTime,
                                           s.EpochTime + Millisecond, 1,
                                           kf.machineId, kf.clusterId)}
    /\ mutex = FALSE
    /\ pc = [p \in Callers |-> "idle"]
    /\ overtime = [p \in Callers |-> 0]
    /\ sleepTime = [p \in Callers |-> 0]
    /\ returned = {}
    /\ held = {}
    /\ made = {}
    /\ NoGcputil
    /\ NoUrlstore

\* the steps of the first caller's NextID, of a clock that moves forward
\* over the first tick after the epoch, and of the pending call
NextMixed ==
    \/ Call(1)
    \/ Lock(1)
    \/ Advance(1, FALSE)
    \/ Sleep(1)
    \/ Wake(1, FALSE)
    \/ (now < (kf.startTime + 1) * kf.timeUnit /\ ClockForward)
    \/ NextPure

SpecMixed == InitMixed /\ [][NextMixed]_vars

----------------------------------------------------------------------------
(* The codec and DecomposeKey, applied to numbers and strings of every kind *)

\* the numbers handed to Encode: every value of the codec's word
CodecNumbers == 0 .. 2 ^ CodecBits - 1

\* the characters of the strings handed to Decode and DecomposeKey: the
\* first and the last of the digits, of the capitals and of the small
\* letters, and characters outside the alphabet
SampleChars == {"0", "9", "A", "Z", "a", "z", "!", "-", " "}

\* the longest string handed to Decode and DecomposeKey
MaxKeyLen == 3

\* the strings handed to Decode and DecomposeKey, the empty one included
SampleStrings == UNION { [1 .. n -> SampleChars] : n \in 0 .. MaxKeyLen }

\* a call of Encode, Decode or DecomposeKey that has its argument and has
\* not run yet
PendingCodec(op, n, str) ==
    [ op |-> op, n |-> n, str |-> str, stage |-> "called",
      dec |-> [n |-> 0, err |-> NoErr],
      back |-> [parts |-> NilParts, err |-> NoErr] ]

\* Base62Encoder.Encode(n) runs
DoEncode ==
    /\ \E c \in last :
          /\ c.op = "Encode" /\ c.stage = "called"
          /\ last' = {[c EXCEPT !.stage = "encoded", !.str = Encode(c.n)]}
    /\ UNCHANGED <<kf, now, mutex, pc, overtime, sleepTime, returned, held, made,
                   zoneVars, storeVars>>

\* Base62Encoder.Decode(s) runs, on the string Encode returned or on the
\* string the call was given
DoDecode ==
    /\ \E c \in last :
          /\ \/ c.op = "Encode" /\ c.stage = "encoded"
             \/ c.op = "Decode" /\ c.stage = "called"
          /\ last' = {[c EXCEPT !.stage = "decoded",
                                !.dec = DecodeWord(c.str, CodecBits)]}
    /\ UNCHANGED <<kf, now, mutex, pc, overtime, sleepTime, returned, held, made,
                   zoneVars, storeVars>>

\* kf.DecomposeKey(key) runs on the string the call was given
DoDecomposeGivenKey ==
    /\ \E c \in last :
          /\ c.op = "DecomposeKey" /\ c.stage = "called"
          /\ last' = {[c EXCEPT !.stage = "decomposed",
                                !.back = DecomposeKey(kf, c.str)]}
    /\ UNCHANGED <<kf, now, mutex, pc, overtime, sleepTime, returned, held, made,
                   zoneVars, storeVars>>

\* kf.Decompose(id) runs on the ID the call was given
DoDecomposeGivenID ==
    /\ \E c \in last :
          /\ c.op = "Decompose" /\ c.stage = "called"
          /\ last' = {[c EXCEPT !.stage = "decomposed",
                                !.back = [parts |-> Decompose(kf, c.n),
                                          err |-> NoErr]]}
    /\ UNCHANGED <<kf, now, mutex, pc, overtime, sleepTime, returned, held, made,
                   zoneVars, storeVars>>

\* a generator after New and one pending call of the codec, of DecomposeKey
\* or of Decompose (on any value of the ID word)
InitCodec ==
    /\ \E s \in GenSettings({Millisecond}, {0}) :
          /\ kf = Build(s)
          /\ now = s.EpochTime
    /\ \/ \E n \in CodecNumbers : last = {PendingCodec("Encode", n, <<>>)}
       \/ \E str \in SampleStrings, op \in {"Decode", "DecomposeKey"} :
             last = {PendingCodec(op, 0, str)}
       \/ \E n \in 0 .. Word - 1 : last = {PendingCodec("Decompose", n, <<>>)}
    /\ mutex = FALSE
    /\ pc = [p \in Callers |-> "idle"]
    /\ overtime = [p \in Callers |-> 0]
    /\ sleepTime = [p \in Callers |-> 0]
    /\ returned = {}
    /\ held = {}
    /\ made = {}
    /\ NoGcputil
    /\ NoUrlstore

NextCodec ==
    \/ DoEncode
    \/ DoDecode
    \/ DoDecomposeGivenKey
    \/ DoDecomposeGivenID

SpecCodec == InitCodec /\ [][NextCodec]_vars

----------------------------------------------------------------------------
(* Package gcputil: the region and zone index tables *)

\* a pinned list with a ninth zone
topRegionZonesNine ==
    (  "africa-south1" :> <<"a">>
    @@ "asia-east1" :> <<"a">>
    @@ "australia-southeast2" :> <<"a">>
    @@ "us-west1" :> <<"a">>
    @@ "us-central1" :> <<"c", "a">>
    @@ "europe-west2" :> <<"a">>
    @@ "europe-north1" :> <<"a">>
    @@ "southamerica-east1" :> <<"a">> )

\* topRegionZones as the source declares it: the pinned zone letters
topRegionZonesBaked ==
    (  "africa-south1" :> <<"a">>
    @@ "asia-east1" :> <<"a">>
    @@ "australia-southeast2" :> <<"a">>
    @@ "us-west1" :> <<"a">>
    @@ "us-central1" :> <<"c">>
    @@ "europe-west2" :> <<"a">>
    @@ "europe-north1" :> <<"a">>
    @@ "southamerica-east1" :> <<"a">> )

\* baseRegionZones as the source declares it: the catalogue
baseRegionZonesBaked ==
    (  "africa-south1" :> <<"a", "b", "c">>
    @@ "asia-east1" :> <<"a", "b", "c">>
    @@ "asia-east2" :> <<"a", "b", "c">>
    @@ "asia-northeast1" :> <<"a", "b", "c">>
    @@ "asia-northeast2" :> <<"a", "b", "c">>
    @@ "asia-northeast3" :> <<"a", "b", "c">>
    @@ "asia-south1" :> <<"a", "b", "c">>
    @@ "asia-south2" :> <<"a", "b", "c">>
    @@ "asia-southeast1" :> <<"a", "b", "c">>
    @@ "asia-southeast2" :> <<"a", "b", "c">>
    @@ "asia-southeast3" :> <<"a", "b", "c">>
    @@ "asia-southeast5" :> <<"a", "b">>
    @@ "australia-southeast1" :> <<"a", "b", "c">>
    @@ "australia-southeast2" :> <<"a", "b", "c">>
    @@ "europe-central2" :> <<"a", "b", "c">>
    @@ "europe-north1" :> <<"a", "b", "c">>
    @@ "europe-southwest1" :> <<"a", "b", "c">>
    @@ "europe-west1" :> <<"b", "c", "d">>
    @@ "europe-west2" :> <<"a", "b", "c">>
    @@ "europe-west3" :> <<"a", "b", "c">>
    @@ "europe-west4" :> <<"a", "b", "c">>
    @@ "europe-west6" :> <<"a", "b", "c">>
    @@ "europe-west8" :> <<"a", "b">>
    @@ "europe-west9" :> <<"a", "b", "c">>
    @@ "europe-west10" :> <<"a", "b", "c">>
    @@ "europe-west12" :> <<"a", "b", "c">>
    @@ "me-central1" :> <<"a", "b", "c">>
    @@ "me-central2" :> <<"a", "b", "c">>
    @@ "me-west1" :> <<"a", "b", "c">>
    @@ "northamerica-northeast1" :> <<"a", "b", "c">>
    @@ "northamerica-northeast2" :> <<"a", "b", "c">>
    @@ "southamerica-east1" :> <<"a", "b", "c">>
    @@ "southamerica-west1" :> <<"a", "b", "c">>
    @@ "us-central1" :> <<"a", "b", "c", "f">>
    @@ "us-east1" :> <<"b", "c", "d">>
    @@ "us-east4" :> <<"a", "b", "c">>
    @@ "us-east5" :> <<"a", "b", "c">>
    @@ "us-south1" :> <<"a", "b", "c">>
    @@ "us-west1" :> <<"a", "b", "c">>
    @@ "us-west2" :> <<"a", "b", "c">>
    @@ "us-west3" :> <<"a", "b", "c">>
    @@ "us-west4" :> <<"a", "b", "c">> )

\* the strings of the model in the order of sort.Strings (byte order)
StringOrder ==
    << "a", "africa-south1", "asia-east1", "asia-east2", "asia-northeast1",
       "asia-northeast2", "asia-northeast3", "asia-south1", "asia-south2",
       "asia-southeast1", "asia-southeast2", "asia-southeast3",
       "asia-southeast5", "australia-southeast1", "australia-southeast2",
       "b", "c", "d", "europe-central2", "europe-north1",
       "europe-southwest1", "europe-west1", "europe-west10",
       "europe-west12", "europe-west2", "europe-west3", "europe-west4",
       "europe-west6", "europe-west8", "europe-west9", "f", "me-central1",
       "me-central2", "me-west1", "northamerica-northeast1",
       "northamerica-northeast2", "southamerica-east1",
       "southamerica-west1", "us-central1", "us-east1", "us-east4",
       "us-east5", "us-south1", "us-west1", "us-west2", "us-west3",
       "us-west4" >>

\* the place of each string in that order
Ranks ==
    [ str \in {StringOrder[i] : i \in 1 .. Len(StringOrder)} |->
        CHOOSE i \in 1 .. Len(StringOrder) : StringOrder[i] = str ]

\* the place of a string in that order
Rank(str) == Ranks[str]

\* one step of the sort: x put after the strings of the sorted sequence that
\* are not greater
Insert(x, sorted) ==
    LET k == Cardinality({i \in 1 .. Len(sorted) : Rank(sorted[i]) <= Rank(x)})
    IN  SubSeq(sorted, 1, k) \o <<x>> \o SubSeq(sorted, k + 1, Len(sorted))

\* a sort that leaves the sequence as it came
Unsorted(seq) == seq

RECURSIVE SortStrings(_)
\* sort.Strings(seq)
SortStrings(seq) ==
    IF seq = <<>> THEN <<>> ELSE Insert(Head(seq), SortStrings(Tail(seq)))

\* a test that finds every letter
hasLetterAlways(letters, want) == TRUE

\* hasLetter(letters, want)
hasLetter(letters, want) == \E i \in 1 .. Len(letters) : letters[i] = want

\* zone := r + "-" + l
ZoneName(r, l) == r \o "-" \o l

\* the elements of a sequence
Range(seq) == {seq[i] : i \in 1 .. Len(seq)}

\* assignments that count a name again each time the loop meets it
AssignIndicesRepeating(names, table) ==
    LET fresh == {i \in 1 .. Len(names) : names[i] \notin DOMAIN table}
    IN  [ n \in DOMAIN table \cup Range(names) |->
            IF n \in DOMAIN table THEN table[n]
            ELSE LET i == CHOOSE k \in fresh : names[k] = n
                 IN  Cardinality(DOMAIN table)
                        + Cardinality({k \in fresh : k < i}) ]

\* the assignments table[name] = idx; idx++ a loop makes for each name of
\* the sequence that has no index yet, idx starting at the size of the table
AssignIndices(names, table) ==
    LET fresh == {i \in 1 .. Len(names) :
                     /\ names[i] \notin DOMAIN table
                     /\ \A j \in 1 .. i - 1 : names[j] # names[i]}
    IN  [ n \in DOMAIN table \cup Range(names) |->
            IF n \in DOMAIN table THEN table[n]
            ELSE LET i == CHOOSE k \in fresh : names[k] = n
                 IN  Cardinality(DOMAIN table)
                        + Cardinality({k \in fresh : k < i}) ]

RECURSIVE ZonesIn(_, _)
\* the zone names a loop over regions and, for each, over its letters
\* visits, in order
ZonesIn(regions, letters) ==
    IF regions = <<>> THEN <<>>
    ELSE LET r == Head(regions)
         IN  [i \in 1 .. Len(letters[r]) |-> ZoneName(r, letters[r][i])]
                \o ZonesIn(Tail(regions), letters)

\* rebuildIndices() on the catalogue base and the pinned list top, the range
\* loops over the two maps visiting their keys in the orders byBase and byTop
rebuildIndices(base, top, byBase, byTop) ==
    LET allRegions == SortStrings(byBase)
        Catalogued(r) == r \in DOMAIN base
        topRegions == SortStrings(SelectSeq(byTop, Catalogued))
        Rest(r) == r \notin Range(topRegions)
        restRegions == SelectSeq(allRegions, Rest)
        topLetters ==
            [ r \in Range(topRegions) |->
                LET Listed(l) == hasLetter(base[r], l)
                IN  SelectSeq(SortStrings(top[r]), Listed) ]
        allLetters == [r \in DOMAIN base |-> SortStrings(base[r])]
    IN  [ Regions |-> AssignIndices(topRegions \o restRegions, EmptyMap),
          Zones |-> AssignIndices(
                        ZonesIn(allRegions, allLetters),
                        AssignIndices(ZonesIn(topRegions, topLetters),
                                      EmptyMap)) ]

\* the regions and letters of the small catalogues explored beside the one
\* of the source
SampleRegions == {"asia-east1", "europe-west2", "us-central1"}

SampleLetters == {"a", "c"}

\* the letter lists of a region in the first catalogues: one letter, two out
\* of order, one listed twice
FirstLists == { <<"a">>, <<"c", "a">>, <<"a", "a">> }

\* the letter list of a region in the pinned lists: two letters out of order,
\* of which a catalogue may hold both, one or none
PinnedLists == { <<"c", "a">> }

\* the maps from some of the regions to one of the lists
MapsTo(regions, lists) == UNION { [D -> lists] : D \in SUBSET regions }

\* the strings of a set in the order of sort.Strings
InOrder(S) == LET Among(str) == str \in S IN SelectSeq(StringOrder, Among)

\* a sequence back to front
Reverse(seq) == [i \in 1 .. Len(seq) |-> seq[Len(seq) + 1 - i]]

\* the orders a range loop may visit the keys S of a map in: every order for
\* a map no larger than the sample, the two sorted ones for a larger map
Orders(S) ==
    IF Cardinality(S) <= Cardinality(SampleRegions)
    THEN {seq \in [1 .. Cardinality(S) -> S] : Range(seq) = S}
    ELSE {InOrder(S), Reverse(InOrder(S))}

\* init() or a later call of rebuildIndices() runs on the catalogue base
Rebuilt(base) ==
    \E byBase \in Orders(DOMAIN base), byTop \in Orders(DOMAIN topRegionZones) :
        LET built == rebuildIndices(base, topRegionZones, byBase, byTop)
        IN  /\ Regions' = built.Regions
            /\ Zones' = built.Zones

\* the frame of the variables package gcputil never touches
NoGenerator ==
    UNCHANGED <<kf, now, mutex, pc, overtime, sleepTime, returned, held,
                made, last, storeVars>>

\* rebuildIndices() runs again on the same catalogue and pinned list
Rebuild ==
    /\ Rebuilt(baseRegionZones)
    /\ UNCHANGED <<baseRegionZones, topRegionZones>>
    /\ NoGenerator

\* a region is added to the catalogue; the program starts again and init()
\* rebuilds the tables
AddRegion(r, letters) ==
    /\ r \notin DOMAIN baseRegionZones
    /\ baseRegionZones' =
          [x \in DOMAIN baseRegionZones \cup {r} |->
              IF x = r THEN letters ELSE baseRegionZones[x]]
    /\ Rebuilt(baseRegionZones')
    /\ UNCHANGED topRegionZones
    /\ NoGenerator

\* a zone letter is added to a region of the catalogue; the program starts
\* again and init() rebuilds the tables
AddLetter(r, l) ==
    /\ r \in DOMAIN baseRegionZones
    /\ ~hasLetter(baseRegionZones[r], l)
    /\ baseRegionZones' = [baseRegionZones EXCEPT ![r] = Append(@, l)]
    /\ Rebuilt(baseRegionZones')
    /\ UNCHANGED topRegionZones
    /\ NoGenerator

\* package gcputil after init(): the catalogue and the pinned list of the
\* source, or small ones, with the tables rebuildIndices() built from them
InitZones ==
    /\ \/ /\ baseRegionZones = baseRegionZonesBaked
          /\ topRegionZones = topRegionZonesBaked
       \/ /\ baseRegionZones \in MapsTo(SampleRegions, FirstLists)
          /\ topRegionZones \in MapsTo(SampleRegions, PinnedLists)
    /\ \E byBase \in Orders(DOMAIN baseRegionZones),
          byTop \in Orders(DOMAIN topRegionZones) :
          LET built == rebuildIndices(baseRegionZones, topRegionZones,
                                      byBase, byTop)
          IN  /\ Regions = built.Regions
              /\ Zones = built.Zones
    /\ kf = NilKubeflake
    /\ now = 0
    /\ mutex = FALSE
    /\ pc = [p \in Callers |-> "idle"]
    /\ overtime = [p \in Callers |-> 0]
    /\ sleepTime = [p \in Callers |-> 0]
    /\ returned = {}
    /\ held = {}
    /\ made = {}
    /\ last = {}
    /\ NoUrlstore

NextZones ==
    \/ Rebuild
    \/ \E r \in SampleRegions, letters \in FirstLists : AddRegion(r, letters)
    \/ \E r \in SampleRegions, l \in SampleLetters : AddLetter(r, l)

SpecZones == InitZones /\ [][NextZones]_vars

----------------------------------------------------------------------------
(* Package gcputil: the pod name and the pod ordinal of StatefulSetPod *)

\* A Go string is modelled as the sequence of its bytes, each a string of
\* one character; the empty string is the empty sequence.

ErrPodNameNotFound == "ErrPodNameNotFound"
ErrOrdinalNotFound == "ErrOrdinalNotFound"

\* the error of strconv.Atoi for a string that is not a number
ErrSyntax == "ErrSyntax"

\* the decimal digits, in the order of their values
DecimalDigits == <<"0", "1", "2", "3", "4", "5", "6", "7", "8", "9">>

\* the value of a decimal digit
DecimalValue(ch) ==
    (CHOOSE i \in 1 .. Len(DecimalDigits) : DecimalDigits[i] = ch) - 1

\* the number written by the digits s[i..], continuing from n
RECURSIVE AtoiDigits(_, _, _)
AtoiDigits(s, i, n) ==
    IF i > Len(s) THEN n
    ELSE AtoiDigits(s, i + 1, n * 10 + DecimalValue(s[i]))

\* strconv.Atoi(s): an optional sign and then one or more decimal digits.
\* The strings explored are too short for a value outside the range of int.
Atoi(s) ==
    LET signed == Len(s) > 0 /\ s[1] \in {"+", "-"}
        digits == IF signed THEN Tail(s) ELSE s
    IN  IF \/ Len(digits) = 0
           \/ \E i \in 1 .. Len(digits) : digits[i] \notin Range(DecimalDigits)
        THEN [n |-> 0, err |-> ErrSyntax]
        ELSE [n |-> IF signed /\ s[1] = "-"
                    THEN 0 - AtoiDigits(digits, 1, 0)
                    ELSE AtoiDigits(digits, 1, 0),
              err |-> NoErr]

\* s[i:i+len(substr)] == substr, for a byte offset i counted from 0
HasAt(s, substr, i) ==
    /\ i + Len(substr) <= Len(s)
    /\ \A j \in 1 .. Len(substr) : s[i + j] = substr[j]

\* strings.LastIndex(s, substr): the byte offset, counted from 0, of the last
\* place substr stands in s, or -1
LastIndex(s, substr) ==
    LET hits == {i \in 0 .. Len(s) : HasAt(s, substr, i)}
    IN  IF hits = {} THEN 0 - 1
        ELSE CHOOSE i \in hits : \A j \in hits : j <= i

\* s[i:] for a byte offset i counted from 0
SliceFrom(s, i) == SubSeq(s, i + 1, Len(s))

\* p.PodName(), with env the environment p.getenv reads and host the result
\* of p.getHostname()
PodName(env, host) ==
    IF env.POD_NAME # <<>> THEN [name |-> env.POD_NAME, err |-> NoErr]
    ELSE IF env.HOSTNAME # <<>> THEN [name |-> env.HOSTNAME, err |-> NoErr]
    ELSE IF host.err = NoErr /\ host.hn # <<>>
         THEN [name |-> host.hn, err |-> NoErr]
    ELSE [name |-> <<>>, err |-> ErrPodNameNotFound]

\* p.PodID()
PodID(p, env, host) ==
    LET got == PodName(env, host)
        d == IF p.Delimiter = <<>> THEN <<"-">> ELSE p.Delimiter
        idx == LastIndex(got.name, d)
        conv == Atoi(SliceFrom(got.name, idx + 1))
    IN  IF got.err # NoErr THEN [n |-> 0, err |-> got.err]
        ELSE IF idx < 0 \/ idx = Len(got.name) - 1
             THEN [n |-> 0, err |-> ErrOrdinalNotFound]
        ELSE IF conv.err # NoErr THEN [n |-> 0, err |-> ErrOrdinalNotFound]
        ELSE [n |-> conv.n, err |-> NoErr]

----------------------------------------------------------------------------
(* Package gcputil: the zone of the node and the cluster id *)

\* The strings of zone discovery are modelled as sequences of pieces: a
\* blank " ", a slash "/", or a run of other bytes such as "us-central1-c".

ErrZoneNotFound == "ErrZoneNotFound"
ErrGCPZoneNotFound == "ErrGCPZoneNotFound"
ErrGCPMetadataUnavailable == "ErrGCPMetadataUnavailable"

\* strings.TrimSpace(s)
TrimSpace(s) ==
    LET solid == {i \in 1 .. Len(s) : s[i] # " "}
    IN  IF solid = {} THEN <<>>
        ELSE SubSeq(s, CHOOSE i \in solid : \A j \in solid : i <= j,
                       CHOOSE i \in solid : \A j \in solid : j <= i)

\* the Go string a sequence of pieces stands for
RECURSIVE Text(_)
Text(s) == IF s = <<>> THEN "" ELSE Head(s) \o Text(Tail(s))

\* GCPZone(ctx), with env the environment os.Getenv reads and meta the
\* outcome of the metadata request: whether it was answered with status 200
\* and a readable body, and the body.  GCE_METADATA_HOST only selects the
\* server that is asked.
GCPZone(env, meta) ==
    LET s == TrimSpace(meta.body)
        i == LastIndex(s, <<"/">>)
    IN  IF TrimSpace(env.GCP_ZONE) # <<>>
        THEN [zone |-> TrimSpace(env.GCP_ZONE), err |-> NoErr]
        ELSE IF TrimSpace(env.ZONE) # <<>>
        THEN [zone |-> TrimSpace(env.ZONE), err |-> NoErr]
        ELSE IF ~meta.ok
        THEN [zone |-> <<>>, err |-> ErrGCPMetadataUnavailable]
        ELSE IF s = <<>>
        THEN [zone |-> <<>>, err |-> ErrGCPZoneNotFound]
        ELSE IF i >= 0 /\ i + 1 < Len(s)
        THEN [zone |-> SliceFrom(s, i + 1), err |-> NoErr]
        ELSE [zone |-> s, err |-> NoErr]

\* ZoneIndex(zone)
ZoneIndex(zone) ==
    IF zone \in DOMAIN Zones THEN [i |-> Zones[zone], ok |-> TRUE]
    ELSE [i |-> 0, ok |-> FALSE]

\* p.ClusterID()
ClusterID(env, meta) ==
    LET podZone == GCPZone(env, meta)
        found == ZoneIndex(Text(podZone.zone))
    IN  IF podZone.err # NoErr THEN [n |-> 0, err |-> podZone.err]
        ELSE IF Len(podZone.zone) = 0 THEN [n |-> 0, err |-> ErrZoneNotFound]
        ELSE IF ~found.ok THEN [n |-> 0, err |-> ErrZoneNotFound]
        ELSE [n |-> found.i, err |-> NoErr]

----------------------------------------------------------------------------
(* PodName, PodID and ClusterID, applied to environments of every kind *)

\* the bytes of the pod names explored: a letter, the usual delimiter, two
\* digits and a sign
NameChars == {"w", "-", "0", "2", "+"}

\* the longest pod name explored in POD_NAME
MaxNameLen == 4

\* the values of POD_NAME, the empty one (unset) included
PodNames == UNION { [1 .. n -> NameChars] : n \in 0 .. MaxNameLen }

\* the values of HOSTNAME and of the OS hostname
HostNames == { <<>>, <<"w", "-", "7">> }

\* the delimiters a StatefulSetPod is given: none, the default, two bytes
Delimiters == { <<>>, <<"-">>, <<"-", "-">> }

\* a call of PodName or PodID that has not run yet
PendingPod(op, p, env, host) ==
    [ op |-> op, p |-> p, env |-> env, host |-> host, stage |-> "called",
      name |-> [name |-> <<>>, err |-> NoErr],
      id |-> [n |-> 0, err |-> NoErr] ]

\* p.PodName() runs
DoPodName ==
    /\ \E c \in last :
          /\ c.op = "PodName" /\ c.stage = "called"
          /\ last' = {[c EXCEPT !.stage = "returned",
                                !.name = PodName(c.env, c.host)]}
    /\ UNCHANGED <<kf, now, mutex, pc, overtime, sleepTime, returned, held, made,
                   zoneVars, storeVars>>

\* p.PodID() runs
DoPodID ==
    /\ \E c \in last :
          /\ c.op = "PodID" /\ c.stage = "called"
          /\ last' = {[c EXCEPT !.stage = "returned",
                                !.id = PodID(c.p, c.env, c.host)]}
    /\ UNCHANGED <<kf, now, mutex, pc, overtime, sleepTime, returned, held, made,
                   zoneVars, storeVars>>

\* the values of GCP_ZONE and ZONE and the bodies the metadata server
\* answers with: nothing, blanks, a zone of the table bare and padded, a zone
\* the table does not hold, the path form of each, paths that end in a
\* slash, a lone slash
ZoneTexts ==
    { <<>>, <<" ">>, <<"us-central1-c">>, <<" ", "europe-west2-a", " ">>,
      <<"nowhere1-z">>,
      <<"projects", "/", "7", "/", "zones", "/", "asia-east1-b">>,
      <<" ", "zones", "/", "nowhere1-z">>,
      <<"zones", "/", "us-central1-c", "/">>, <<"zones", "/", " ">>, <<"/">> }

\* a call of ClusterID that has not run yet
PendingCluster(env, meta) ==
    [ op |-> "ClusterID", env |-> env, meta |-> meta, stage |-> "called",
      id |-> [n |-> 0, err |-> NoErr] ]

\* p.ClusterID() runs
DoClusterID ==
    /\ \E c \in last :
          /\ c.op = "ClusterID" /\ c.stage = "called"
          /\ last' = {[c EXCEPT !.stage = "returned",
                                !.id = ClusterID(c.env, c.meta)]}
    /\ UNCHANGED <<kf, now, mutex, pc, overtime, sleepTime, returned, held, made,
                   zoneVars, storeVars>>

\* the tables init() builds from the catalogue and the pinned list of the
\* source
BakedTables ==
    rebuildIndices(baseRegionZonesBaked, topRegionZonesBaked,
                   InOrder(DOMAIN baseRegionZonesBaked),
                   InOrder(DOMAIN topRegionZonesBaked))

\* a StatefulSetPod in some environment and one pending call of it, after
\* the init() of package gcputil
InitPod ==
    /\ \/ \E op \in {"PodName", "PodID"}, d \in Delimiters,
             pn \in PodNames, hostname \in HostNames, hn \in HostNames,
             failed \in BOOLEAN :
             last = { PendingPod(op, [Delimiter |-> d],
                                 [POD_NAME |-> pn, HOSTNAME |-> hostname],
                                 [hn |-> hn,
                                  err |-> IF failed THEN "hostname error"
                                          ELSE NoErr]) }
       \/ \E gz \in ZoneTexts, z \in ZoneTexts, body \in ZoneTexts,
             ok \in BOOLEAN :
             last = { PendingCluster([GCP_ZONE |-> gz, ZONE |-> z],
                                     [ok |-> ok, body |-> body]) }
    /\ kf = NilKubeflake
    /\ now = 0
    /\ mutex = FALSE
    /\ pc = [p \in Callers |-> "idle"]
    /\ overtime = [p \in Callers |-> 0]
    /\ sleepTime = [p \in Callers |-> 0]
    /\ returned = {}
    /\ held = {}
    /\ made = {}
    /\ baseRegionZones = baseRegionZonesBaked
    /\ topRegionZones = topRegionZonesBaked
    /\ Regions = BakedTables.Regions
    /\ Zones = BakedTables.Zones
    /\ NoUrlstore

NextPod ==
    \/ DoPodName
    \/ DoPodID
    \/ DoClusterID

SpecPod == InitPod /\ [][NextPod]_vars

----------------------------------------------------------------------------
(* The keygen service: newHandler, main and the request handler *)

\* newHandler(), with flags the values of bits.sequence, bits.cluster and
\* bits.machine and ids what ClusterID and PodID of the StatefulSetPod return
\* when New calls them; the error of New is wrapped with %w
newHandlerLenient(flags, ids, clock) == [err |-> NoErr, cause |-> NoErr]

newHandler(flags, ids, clock) ==
    LET settings == [ BitsSequence |-> flags[1], BitsCluster |-> flags[2],
                      BitsMachine |-> flags[3], TimeUnit |-> 0,
                      EpochTime |-> ZeroTime,
                      ClusterId |-> ids[1], MachineId |-> ids[2] ]
        out == New(settings, clock)
    IN  IF out.err # NoErr
        THEN [err |-> "failed to create Kubeflake", cause |-> out.err]
        ELSE [err |-> NoErr, cause |-> NoErr]

\* kf.NextID() run by one goroutine from Lock to Unlock with no other caller
\* about: the generator and the clock it leaves, and what it returns.
\* time.Sleep(d) returns when d has passed.
NextIDAlone(k, clock) ==
    LET a == advance(k, clock)
        d == IF a.wrapped THEN sleepDuration(a.kf, a.overtime, clock) ELSE 0
    IN  [ kf |-> a.kf,
          now |-> IF d > 0 THEN clock + d ELSE clock,
          res |-> toID(a.kf) ]

\* a handler that answers with the key whatever NextKey reports
generateKeyUnchecked(k, clock, written) ==
    LET n == NextIDAlone(k, clock)
    IN  [ kf |-> n.kf, now |-> n.now, calls |-> 1, key |-> NextKey(n.res),
          status |-> 200, body |-> Encode(n.res.id), complete |-> TRUE ]

\* h.generateKey(w, r): one call of NextKey, then the error answer or the
\* key; written is the number of bytes w.Write gets out before the
\* connection fails, and an answer cut short is not complete
generateKey(k, clock, written) ==
    LET n == NextIDAlone(k, clock)
        key == NextKey(n.res)
        sent == [kf |-> n.kf, now |-> n.now, calls |-> 1, key |-> key]
    IN  IF key.err # NoErr
        THEN sent @@ [ status |-> 500,
                       body |-> <<"failed to generate key: ", key.err>>,
                       complete |-> TRUE ]
        ELSE IF written < Len(key.key)
        THEN sent @@ [ status |-> 200, body |-> SubSeq(key.key, 1, written),
                       complete |-> FALSE ]
        ELSE sent @@ [ status |-> 200, body |-> key.key, complete |-> TRUE ]

\* h.ServeHTTP(w, r) for r.URL.Path = path
ServeHTTP(k, clock, path, written) ==
    LET idle == [ kf |-> k, now |-> clock, calls |-> 0,
                  key |-> [key |-> <<>>, err |-> NoErr] ]
    IN  IF path = "/health"
        THEN idle @@ [status |-> 200, body |-> <<>>, complete |-> TRUE]
        ELSE IF path = "/generate/v1"
        THEN generateKey(k, clock, written)
        ELSE idle @@ [ status |-> 404, body |-> <<"404 page not found">>,
                       complete |-> TRUE ]

----------------------------------------------------------------------------
(* The keygen service, started with flags and identities of every kind *)

\* the default values of the flags bits.sequence, bits.cluster and
\* bits.machine
defaultFlags == <<16, 7, 10>>

\* the flag values (bits.sequence, bits.cluster, bits.machine): the defaults
\* of the flags, widths that leave 32 time bits, the least widths, a
\* sequence width above its limit
KeygenFlags == { defaultFlags, <<16, 6, 10>>, <<8, 2, 3>>, <<31, 7, 10>> }

\* what the two identity providers return: an index or ordinal, or one of
\* the errors of ClusterID and PodID
KeygenIdentities ==
    { Const(3), [val |-> 0, err |-> ErrZoneNotFound],
      [val |-> 0, err |-> ErrGCPMetadataUnavailable] }
    \X { Const(2), [val |-> 0, err |-> ErrOrdinalNotFound],
         [val |-> 0, err |-> ErrPodNameNotFound] }

\* the paths of the requests
Paths == {"/health", "/generate/v1", "/favicon.ico"}

\* the generators of the model's scale that stand for the one New returned
ScaledGenerators ==
    { Build(s) : s \in { x \in GenSettings({Millisecond}, {0}) :
                           ~After(x.EpochTime, now) } }

\* main(): newHandler fails and main returns, or the handler is registered
\* and ListenAndServe listens, or ListenAndServe fails and main panics
Main ==
    /\ \E c \in made :
          /\ c.stage = "starting"
          /\ LET h == newHandler(c.flags, c.ids, now)
             IN  IF h.err # NoErr
                 THEN /\ made' = {[c EXCEPT !.stage = "exited", !.out = h]}
                      /\ kf' = kf
                 ELSE /\ \E bound \in BOOLEAN :
                            made' = {[c EXCEPT !.out = h,
                                               !.stage = IF bound
                                                         THEN "listening"
                                                         ELSE "panicked"]}
                      /\ kf' \in ScaledGenerators
    /\ UNCHANGED <<now, mutex, pc, overtime, sleepTime, returned, held, last,
                   zoneVars, storeVars>>

\* the listening server receives a request and answers it
Serve(path, written) ==
    /\ \E c \in made : c.stage = "listening"
    /\ LET served == ServeHTTP(kf, now, path, written)
       IN  /\ served.now <= MaxInstant
           /\ kf' = served.kf
           /\ now' = served.now
           /\ last' = {[ path |-> path, calls |-> served.calls,
                         key |-> served.key, status |-> served.status,
                         body |-> served.body,
                         complete |-> served.complete ]}
    /\ UNCHANGED <<mutex, pc, overtime, sleepTime, returned, held, made,
                   zoneVars, storeVars>>

\* the keygen process before main() runs
InitKeygen ==
    /\ \E flags \in KeygenFlags, ids \in KeygenIdentities :
          made = {[ flags |-> flags, ids |-> ids, stage |-> "starting",
                    out |-> [err |-> NoErr, cause |-> NoErr] ]}
    /\ now \in {Millisecond, Millisecond + 1}
    /\ kf = NilKubeflake
    /\ mutex = FALSE
    /\ pc = [p \in Callers |-> "idle"]
    /\ overtime = [p \in Callers |-> 0]
    /\ sleepTime = [p \in Callers |-> 0]
    /\ returned = {}
    /\ held = {}
    /\ last = {}
    /\ NoGcputil
    /\ NoUrlstore

NextKeygen ==
    \/ Main
    \/ \E path \in Paths, written \in 0 .. MaxKeyLen : Serve(path, written)
    \/ ClockForward
    \/ ClockBack

SpecKeygen == InitKeygen /\ [][NextKeygen]_vars

----------------------------------------------------------------------------
(* Package urlstore: the cache-aside client of the URL store *)

\* errors of the datastore and of the memcache
ErrNoSuchEntity == "datastore: no such entity"
ErrCacheMiss == "memcache: cache miss"
ErrDatastore == "datastore: request failed"
ErrMemcache == "memcache: request failed"

\* the keys, the URL targets and the creation times explored: the target
\* BadBytes is not valid UTF-8, the times are the zero time.Time and an
\* instant after the Unix origin
UrlKeys == {"k1", "k2"}
BadBytes == "\\xff"
Replacement == "\\ufffd"
Targets == {"a.example", "b.example", BadBytes}
Times == {ZeroTime, Millisecond}

\* struct URLEntry
URLEntry(target, created) ==
    [URLTarget |-> target, CreationTimestamp |-> created]

\* the zero URLEntry
NoEntry == URLEntry("", ZeroTime)

\* the entries a caller hands to CreateEntry
Entries == { URLEntry(t, c) : t \in Targets, c \in Times }

\* json.Marshal of an entry followed by json.Unmarshal: bytes that are not
\* valid UTF-8 come back as the replacement character, the instant of the
\* creation time comes back whole (RFC 3339 with nanoseconds)
ThroughJSON(entry) ==
    [entry EXCEPT !.URLTarget = IF @ = BadBytes THEN Replacement ELSE @]

\* c.cache.Set(item): the item is stored, or the request fails and the
\* memcache is left alone
CacheSet(c, key, value, stored) ==
    IF stored THEN [k \in DOMAIN c \cup {key} |-> IF k = key THEN value ELSE c[k]]
    ELSE c

\* URLEntry{URLTarget: string(item.Value)}
HitValue(key, value) == URLEntry(value, ZeroTime)

\* c.CreateEntry(ctx, key, entry): the datastore takes the entry or refuses
\* it; when it took it the item is set in the memcache, a failure of which
\* is logged only
CreateEntry(key, entry, put, stored) ==
    /\ IF ~put
       THEN /\ last' = {[ op |-> "CreateEntry", key |-> key, hit |-> FALSE,
                          entry |-> entry, err |-> ErrDatastore ]}
            /\ UNCHANGED storeVars
       ELSE /\ underlying' = [k \in DOMAIN underlying \cup {key} |->
                                 IF k = key THEN ThroughJSON(entry)
                                 ELSE underlying[k]]
            /\ cache' = CacheSet(cache, key, entry.URLTarget, stored)
            /\ last' = {[ op |-> "CreateEntry", key |-> key, hit |-> FALSE,
                          entry |-> entry, err |-> NoErr ]}
    /\ UNCHANGED <<kf, now, mutex, pc, overtime, sleepTime, returned, held, made,
                   zoneVars>>

\* c.GetEntry(ctx, urlKey): the memcache answers (answered) or fails; a hit
\* returns the item's value, a miss reads the datastore (which answers, got,
\* or fails) and sets the item in the memcache
GetEntry(urlKey, answered, got, stored) ==
    /\ LET result(hit, entry, err) ==
               {[ op |-> "GetEntry", key |-> urlKey, hit |-> hit,
                  entry |-> entry, err |-> err ]}
       IN  IF ~answered
           THEN /\ last' = result(FALSE, NoEntry, ErrMemcache)
                /\ UNCHANGED storeVars
           ELSE IF urlKey \in DOMAIN cache
           THEN /\ last' = result(TRUE, HitValue(urlKey, cache[urlKey]), NoErr)
                /\ UNCHANGED storeVars
           ELSE IF urlKey \notin DOMAIN underlying
           THEN /\ last' = result(FALSE, NoEntry, ErrNoSuchEntity)
                /\ UNCHANGED storeVars
           ELSE IF ~got
           THEN /\ last' = result(FALSE, NoEntry, ErrDatastore)
                /\ UNCHANGED storeVars
           ELSE /\ last' = result(FALSE, underlying[urlKey], NoErr)
                /\ cache' = CacheSet(cache, urlKey,
                                     underlying[urlKey].URLTarget, stored)
                /\ UNCHANGED underlying
    /\ UNCHANGED <<kf, now, mutex, pc, overtime, sleepTime, returned, held, made,
                   zoneVars>>

\* the memcache drops an item
Evict(key) ==
    /\ key \in DOMAIN cache
    /\ cache' = [k \in DOMAIN cache \ {key} |-> cache[k]]
    /\ UNCHANGED <<kf, now, mutex, pc, overtime, sleepTime, returned, held, made,
                   last, zoneVars, underlying>>

\* a CachedClient over an empty datastore and an empty memcache
InitStore ==
    /\ underlying = EmptyMap
    /\ cache = EmptyMap
    /\ kf = NilKubeflake
    /\ now = 0
    /\ mutex = FALSE
    /\ pc = [p \in Callers |-> "idle"]
    /\ overtime = [p \in Callers |-> 0]
    /\ sleepTime = [p \in Callers |-> 0]
    /\ returned = {}
    /\ held = {}
    /\ made = {}
    /\ last = {}
    /\ NoGcputil

NextStore ==
    \/ \E key \in UrlKeys, entry \in Entries, put, stored \in BOOLEAN :
          CreateEntry(key, entry, put, stored)
    \/ \E urlKey \in UrlKeys, answered, got, stored \in BOOLEAN :
          GetEntry(urlKey, answered, got, stored)
    \/ \E key \in UrlKeys : Evict(key)

SpecStore == InitStore /\ [][NextStore]_vars

----------------------------------------------------------------------------
(* Properties of New *)

\* what the documentation of Settings calls valid, setting by setting
SequenceBitsValid(s) ==
    s.BitsSequence >= 8 /\ s.BitsSequence <= 30

MachineBitsValid(s) ==
    s.BitsMachine >= 3 /\ s.BitsMachine <= 16

ClusterBitsValid(s) ==
    s.BitsCluster >= 2 /\ s.BitsCluster <= 8

TimeUnitValid(s) ==
    s.TimeUnit = 0 \/ s.TimeUnit >= Millisecond

EpochValid(s, clock) == s.EpochTime <= clock

\* the calls of New that have returned
Made == {c \in made : c.done}

\* C4: in every generator returned by New, clusterId is in
\* [0, 2^bitsCluster) and machineId is in [0, 2^bitsMachine), whatever the
\* providers returned.
C4_IdentitiesWithinWidths ==
    \A c \in Made :
        c.out.err = NoErr =>
            /\ c.out.kf.clusterId >= 0
            /\ c.out.kf.clusterId < 2 ^ c.out.kf.bitsCluster
            /\ c.out.kf.machineId >= 0
            /\ c.out.kf.machineId < 2 ^ c.out.kf.bitsMachine

C7_UnsetWidthsDefault ==
    \A c \in Made :
        LET s == c.settings
        IN  /\ s.BitsSequence = 0 => c.out.err # ErrInvalidBitsSequence
            /\ s.BitsMachine = 0 => c.out.err # ErrInvalidBitsMachineID
            /\ s.BitsCluster = 0 => c.out.err # ErrInvalidBitsClusterID
            /\ c.out.err = NoErr =>
                  /\ s.BitsSequence = 0 => c.out.kf.bitsSequence = 9
                  /\ s.BitsCluster = 0 => c.out.kf.bitsCluster = 3
                  /\ s.BitsMachine = 0 => c.out.kf.bitsMachine = 13

\* whether the settings of a call pass every check the documentation names:
\* the three widths, the time unit, the epoch, and 32 bits left for the time
SettingsValid(c) ==
    /\ SequenceBitsValid(c.settings)
    /\ MachineBitsValid(c.settings)
    /\ ClusterBitsValid(c.settings)
    /\ TimeUnitValid(c.settings)
    /\ EpochValid(c.settings, c.clock)
    /\ c.settings.BitsSequence + c.settings.BitsMachine
          + c.settings.BitsCluster <= 32

\* C24: New calls the identity providers only when every settings check has
\* passed, the cluster provider before the machine provider; at the first
\* provider error it returns no generator and that very error, and does not
\* call the provider that remains.
C24_ProvidersAfterChecks ==
    \A c \in Made :
        LET cluster == c.settings.ClusterId
            machine == c.settings.MachineId
        IN  /\ ~SettingsValid(c) => c.out.invoked = <<>>
            /\ SettingsValid(c) =>
                  IF cluster.err # NoErr
                  THEN c.out = [kf |-> NilKubeflake, err |-> cluster.err,
                                invoked |-> <<"ClusterId">>]
                  ELSE IF machine.err # NoErr
                  THEN c.out = [kf |-> NilKubeflake, err |-> machine.err,
                                invoked |-> <<"ClusterId", "MachineId">>]
                  ELSE /\ c.out.err = NoErr
                       /\ c.out.invoked = <<"ClusterId", "MachineId">>

\* New has returned the error of the cluster provider and left the failing
\* machine provider uncalled
C24_Witness ==
    \E c \in Made :
        /\ SettingsValid(c)
        /\ c.settings.ClusterId.err = "errCluster"
        /\ c.settings.MachineId.err = "errMachine"
        /\ c.out.err = "errCluster"
        /\ c.out.invoked = <<"ClusterId">>

\* C25: when several settings are invalid at once, New returns no generator
\* and the error of the earliest failing check in the order sequence width,
\* machine width, cluster width, time unit, epoch in the future, fewer than
\* 32 time bits; with no failing check it returns none of these errors.
C25_EarliestCheckWins ==
    \A c \in Made :
        LET s == c.settings
            fails(e) == c.out.err = e /\ c.out.kf = NilKubeflake
        IN  IF ~SequenceBitsValid(s) THEN fails(ErrInvalidBitsSequence)
            ELSE IF ~MachineBitsValid(s) THEN fails(ErrInvalidBitsMachineID)
            ELSE IF ~ClusterBitsValid(s) THEN fails(ErrInvalidBitsClusterID)
            ELSE IF ~TimeUnitValid(s) THEN fails(ErrInvalidTimeUnit)
            ELSE IF ~EpochValid(s, c.clock) THEN fails(ErrStartTimeAhead)
            ELSE IF ~SettingsValid(c) THEN fails(ErrInvalidBitsTime)
            ELSE c.out.err \notin
                   { ErrInvalidBitsSequence, ErrInvalidBitsMachineID,
                     ErrInvalidBitsClusterID, ErrInvalidTimeUnit,
                     ErrStartTimeAhead, ErrInvalidBitsTime }

\* New was given a machine width, a time unit and an epoch that are all
\* invalid and has returned the error of the machine width
C25_Witness ==
    \E c \in Made :
        /\ SequenceBitsValid(c.settings)
        /\ ~MachineBitsValid(c.settings)
        /\ ~TimeUnitValid(c.settings)
        /\ ~EpochValid(c.settings, c.clock)
        /\ c.out.err = ErrInvalidBitsMachineID

C27_UnsetUnitAndEpochDefault ==
    \A c \in Made :
        (/\ SettingsValid(c)
         /\ c.settings.ClusterId.err = NoErr
         /\ c.settings.MachineId.err = NoErr)
        => /\ c.out.err = NoErr
           /\ c.settings.TimeUnit = 0 => c.out.kf.timeUnit = 10 * Millisecond
           /\ IsZero(c.settings.EpochTime) =>
                 c.out.kf.startTime
                   = ToUint(TruncDiv(defaultEpochTime, c.out.kf.timeUnit))

\* New has returned a generator for settings with neither a time unit nor
\* an epoch
C27_Witness ==
    \E c \in Made :
        /\ c.settings.TimeUnit = 0
        /\ IsZero(c.settings.EpochTime)
        /\ c.out.err = NoErr
        /\ c.out.kf.timeUnit = 10 * Millisecond

----------------------------------------------------------------------------
(* Properties of Compose and Decompose *)

\* the tick of an instant: the whole time units from the Unix origin to it
Tick(k, t) == t \div k.timeUnit

\* the elapsed tick of t: its tick counted from the tick of the epoch
ElapsedTick(k, epoch, t) == Tick(k, t) - Tick(k, epoch)

\* whether v fits a field of the given width
Fits(v, bits) == v >= 0 /\ v <= 2 ^ bits - 1

\* whether call c got past the checks Compose makes of its time argument
TimeAccepted(c) == c.out.err \notin {ErrStartTimeAhead, ErrOverTimeLimit}

\* the calls of Compose and ComposeKey that have returned
Composed == {c \in last : c.stage \in {"composed", "decomposed"}}

\* C5: for t not before the epoch with an elapsed tick below 2^bitsTime and
\* sequence, machineId and clusterId within their fields, Compose succeeds
\* and Decompose of its result is exactly (elapsed tick of t, sequence,
\* machineId, clusterId); the same for ComposeKey and DecomposeKey.
C5_RoundTrip ==
    \A c \in Composed :
        ( /\ c.t >= c.epoch
          /\ ElapsedTick(kf, c.epoch, c.t) < 2 ^ kf.bitsTime
          /\ Fits(c.sequence, kf.bitsSequence)
          /\ Fits(c.machineID, kf.bitsMachine)
          /\ Fits(c.clusterId, kf.bitsCluster) )
        => /\ c.out.err = NoErr
           /\ c.stage = "decomposed" =>
                 /\ c.back.err = NoErr
                 /\ c.back.parts =
                       [ timestamp  |-> ElapsedTick(kf, c.epoch, c.t),
                         sequence   |-> c.sequence,
                         machine_id |-> c.machineID,
                         cluster_id |-> c.clusterId ]

\* C8: once its time argument is accepted, Compose returns
\* ErrInvalidSequence, ErrInvalidClusterID or ErrInvalidMachineID for every
\* sequence, clusterId or machineId that is negative or at least 2^bits of
\* its field (2^bits itself included), the fields being checked in that
\* order, and accepts every value from 0 to 2^bits - 1.
C8_FieldRangeErrors ==
    \A c \in Composed :
        LET sv == Fits(c.sequence, kf.bitsSequence)
            cv == Fits(c.clusterId, kf.bitsCluster)
            mv == Fits(c.machineID, kf.bitsMachine)
        IN  TimeAccepted(c) =>
              /\ ~sv => c.out.err = ErrInvalidSequence
              /\ (sv /\ ~cv) => c.out.err = ErrInvalidClusterID
              /\ (sv /\ cv /\ ~mv) => c.out.err = ErrInvalidMachineID
              /\ (sv /\ cv /\ mv) => c.out.err = NoErr

\* Compose has rejected a machine ID of exactly 2^bitsMachine, the sequence
\* and the cluster ID being the greatest of their fields
C8_Witness ==
    \E c \in Composed :
        /\ c.op = "Compose"
        /\ c.sequence = 2 ^ kf.bitsSequence - 1
        /\ c.clusterId = 2 ^ kf.bitsCluster - 1
        /\ c.machineID = 2 ^ kf.bitsMachine
        /\ c.out.err = ErrInvalidMachineID

\* C9: Compose returns ErrStartTimeAhead for every t before the epoch
\* instant, a t less than one time unit before it included.
C9_BeforeEpochRejected ==
    \A c \in Composed :
        c.t < c.epoch => c.out.err = ErrStartTimeAhead

\* C10: Compose returns ErrOverTimeLimit exactly when the elapsed tick of t
\* is at least 2^bitsTime; the first rejected instant is the epoch plus
\* 2^bitsTime time units; an elapsed tick of 2^bitsTime - 1 is accepted.
C10_OverTimeLimitFromEpoch ==
    \A c \in Composed :
        /\ (c.out.err = ErrOverTimeLimit)
              <=> (c.t >= c.epoch + (2 ^ kf.bitsTime) * kf.timeUnit)
        /\ ( /\ c.t >= c.epoch
             /\ ElapsedTick(kf, c.epoch, c.t) = 2 ^ kf.bitsTime - 1 )
           => c.out.err # ErrOverTimeLimit

\* the generator as New left it, before any NextID
Fresh(k) == [k EXCEPT !.elapsedTime = 0, !.sequence = 0]

\* C28: Compose, ComposeKey, Decompose and DecomposeKey take no lock and do
\* not depend on elapsedTime and sequence: a pending call can run while
\* NextID holds the lock, in its sleep as before and after it; its result is
\* the one it gives on the generator New returned, whatever NextID has done
\* to elapsedTime and sequence since; Decompose never fails.
C28_ComposeNeedsNoLock ==
    /\ \A c \in last :
          /\ (c.stage = "called" /\ mutex) =>
                ENABLED (DoCompose \/ DoComposeKey)
          /\ (c.stage # "called" /\ c.op = "Compose") =>
                LET r == Compose(Fresh(kf), c.t, c.sequence, c.machineID,
                                 c.clusterId)
                IN  c.out.id = r.id /\ c.out.err = r.err
          /\ (c.stage # "called" /\ c.op = "ComposeKey") =>
                LET r == ComposeKey(Fresh(kf), c.t, c.sequence, c.machineID,
                                    c.clusterId)
                IN  c.out.key = r.key /\ c.out.err = r.err
          /\ (c.stage = "decomposed" /\ c.op = "Compose") =>
                /\ c.back.err = NoErr
                /\ c.back.parts = Decompose(Fresh(kf), c.out.id)
          /\ (c.stage = "decomposed" /\ c.op = "ComposeKey") =>
                c.back = DecomposeKey(Fresh(kf), c.out.key)
    /\ \A c \in last :
          (c.stage = "composed" /\ mutex) =>
             ENABLED (DoDecompose \/ DoDecomposeKey)

\* Compose has run and Decompose is about to while NextID sleeps with the
\* lock held and a sequence number it has advanced
C28_Witness ==
    /\ mutex
    /\ pc[1] = "sleeping"
    /\ kf.elapsedTime > 0
    /\ \E c \in last : c.stage = "composed" /\ c.out.err = NoErr

\* C38: for every value of the ID word, the four parts Decompose returns fit
\* their fields, and Compose packs them back to the same value: the fields
\* cover the word with no gap and no overlap.
C38_PartsRecomposeToID ==
    \A c \in last :
        (c.op = "Decompose" /\ c.stage = "decomposed") =>
            LET parts == c.back.parts
            IN  /\ Fits(parts.timestamp, kf.bitsTime)
                /\ Fits(parts.sequence, kf.bitsSequence)
                /\ Fits(parts.cluster_id, kf.bitsCluster)
                /\ Fits(parts.machine_id, kf.bitsMachine)
                /\ Compose(kf, TickStart(kf, parts.timestamp), parts.sequence,
                           parts.machine_id, parts.cluster_id)
                      = [id |-> c.n, err |-> NoErr]

\* the greatest value of the word has been decomposed: every field holds its
\* greatest value
C38_Witness ==
    \E c \in last :
        /\ c.op = "Decompose" /\ c.stage = "decomposed"
        /\ c.n = Word - 1
        /\ c.back.parts = [ timestamp  |-> 2 ^ kf.bitsTime - 1,
                            sequence   |-> 2 ^ kf.bitsSequence - 1,
                            machine_id |-> 2 ^ kf.bitsMachine - 1,
                            cluster_id |-> 2 ^ kf.bitsCluster - 1 ]

----------------------------------------------------------------------------
(* Properties of the Base62 codec *)

\* the alphabet the digits are taken from: 0-9, then A-Z, then a-z
Alphabet62 ==
    << "0", "1", "2", "3", "4", "5", "6", "7", "8", "9" >>
    \o << "A", "B", "C", "D", "E", "F", "G", "H", "I", "J", "K", "L", "M",
          "N", "O", "P", "Q", "R", "S", "T", "U", "V", "W", "X", "Y", "Z" >>
    \o << "a", "b", "c", "d", "e", "f", "g", "h", "i", "j", "k", "l", "m",
          "n", "o", "p", "q", "r", "s", "t", "u", "v", "w", "x", "y", "z" >>

\* whether ch is one of the 62 characters
InAlphabet(ch) == \E d \in 1 .. Len(Alphabet62) : Alphabet62[d] = ch

\* the value of the digit ch
DigitValue(ch) == (CHOOSE d \in 1 .. Len(Alphabet62) : Alphabet62[d] = ch) - 1

RECURSIVE PlaceValue(_)
\* the number a string of digits denotes, most significant digit first
PlaceValue(str) ==
    IF str = <<>> THEN 0
    ELSE PlaceValue(SubSeq(str, 1, Len(str) - 1)) * Len(Alphabet62)
            + DigitValue(str[Len(str)])

\* the calls of the codec by the stage they have reached
Encoded == {c \in last : c.op = "Encode" /\ c.stage \in {"encoded", "decoded"}}

Decoded == {c \in last : c.op \in {"Encode", "Decode"} /\ c.stage = "decoded"}

Decomposed == {c \in last : c.op = "DecomposeKey" /\ c.stage = "decomposed"}

\* C12: for every n of the unsigned word, Decode(Encode(n)) returns n and no
\* error.
C12_DecodeEncode ==
    \A c \in Decoded :
        c.op = "Encode" => c.dec = [n |-> c.n, err |-> NoErr]

\* the greatest number of the word has gone through Encode and Decode
C12_Witness ==
    \E c \in Decoded :
        c.op = "Encode" /\ c.n = 2 ^ CodecBits - 1 /\ Len(c.str) > 2

\* C13: Encode never returns the empty string: Encode(0) is "0", and for
\* n > 0 the result is the base-62 representation of n over 0-9, A-Z, a-z,
\* most significant digit first, with no leading "0".
C13_EncodeCanonical ==
    \A c \in Encoded :
        /\ c.str # <<>>
        /\ c.n = 0 => c.str = <<"0">>
        /\ \A i \in 1 .. Len(c.str) : InAlphabet(c.str[i])
        /\ c.n > 0 => c.str[1] # "0"
        /\ PlaceValue(c.str) = c.n

\* Encode has returned for 0
C13_Witness == \E c \in Encoded : c.n = 0 /\ c.str = <<"0">>

\* C14: Decode and DecomposeKey return ErrInvalidBase, with no number and no
\* parts, for every string with a character outside the 62-character
\* alphabet, wherever it sits.
C14_InvalidBaseRejected ==
    /\ \A c \in Decoded :
          (\E i \in 1 .. Len(c.str) : ~InAlphabet(c.str[i]))
              => c.dec = [n |-> 0, err |-> ErrInvalidBase]
    /\ \A c \in Decomposed :
          (\E i \in 1 .. Len(c.str) : ~InAlphabet(c.str[i]))
              => c.back = [parts |-> NilParts, err |-> ErrInvalidBase]

\* DecomposeKey has rejected a key whose only bad character is its last
C14_Witness ==
    \E c \in Decomposed :
        /\ Len(c.str) = MaxKeyLen
        /\ \A i \in 1 .. MaxKeyLen - 1 : InAlphabet(c.str[i])
        /\ ~InAlphabet(c.str[MaxKeyLen])
        /\ c.back.err = ErrInvalidBase


-----------------------------------------------------------------------------
(* Properties of the zone index tables *)

\* the pinned zones: the pinned letters of the pinned regions that the
\* catalogue lists
PinnedZones ==
    { ZoneName(r, l) :
        <<r, l>> \in { p \in (DOMAIN topRegionZones \cap DOMAIN baseRegionZones)
                                \X Range(StringOrder) :
                        /\ p[2] \in Range(topRegionZones[p[1]])
                        /\ p[2] \in Range(baseRegionZones[p[1]]) } }

\* C16: in the zone table rebuildIndices builds, every pinned zone has an
\* index, and it is strictly smaller than the index of every zone that is
\* not pinned; a zone that is the only pinned one has index 0.
C16_PinnedZonesFirst ==
    \A z \in PinnedZones :
        /\ z \in DOMAIN Zones
        /\ \A y \in DOMAIN Zones \ PinnedZones : Zones[z] < Zones[y]
        /\ PinnedZones = {z} => Zones[z] = 0

\* europe-west2-a is the only pinned zone of a catalogue that also holds
\* us-central1, and the table is built
C16_Witness ==
    /\ DOMAIN topRegionZones = {"europe-west2"}
    /\ {"europe-west2", "us-central1"} \subseteq DOMAIN baseRegionZones
    /\ PinnedZones = {"europe-west2-a"}
    /\ "us-central1-a" \in DOMAIN Zones
    /\ Zones["europe-west2-a"] = 0

\* the catalogue grows in a step: every region and every letter it listed is
\* still listed, something new is listed, and the pinned list is the same
CatalogueGrows ==
    /\ topRegionZones' = topRegionZones
    /\ baseRegionZones' # baseRegionZones
    /\ DOMAIN baseRegionZones \subseteq DOMAIN baseRegionZones'
    /\ \A r \in DOMAIN baseRegionZones :
          Range(baseRegionZones[r]) \subseteq Range(baseRegionZones'[r])

\* the table after the step keeps every index of the table before it and
\* numbers its new entries above all of them
AppendsTo(before, after) ==
    /\ \A x \in DOMAIN before : x \in DOMAIN after /\ after[x] = before[x]
    /\ \A x \in DOMAIN after \ DOMAIN before :
          \A y \in DOMAIN before : after[x] > before[y]

\* C17: when a region or a zone letter is added to the catalogue and the
\* pinned list and the existing entries stay as they are, the rebuilt tables
\* give every zone and region that existed the index it had, and the new
\* entries indices above all old ones.
C17_AddingOnlyAppends ==
    [][ CatalogueGrows => /\ AppendsTo(Zones, Zones')
                          /\ AppendsTo(Regions, Regions') ]_vars

\* the ways of listing the same letters: every order of a list
Relisted(letters) ==
    { [i \in 1 .. Len(letters) |-> letters[f[i]]] :
        f \in Permutations(1 .. Len(letters)) }

\* the ways of writing the same map from regions to letters: every order of
\* every list for a map no larger than the sample, every list as it is or
\* every list back to front for a larger map
Relistings(map) ==
    IF Cardinality(DOMAIN map) <= Cardinality(SampleRegions)
    THEN { m \in [DOMAIN map -> UNION {Relisted(map[r]) : r \in DOMAIN map}] :
             \A r \in DOMAIN map : m[r] \in Relisted(map[r]) }
    ELSE { map, [r \in DOMAIN map |-> Reverse(map[r])] }

\* C18: rebuilding from the same catalogue and pinned list yields the same
\* zone and region tables whatever order the range loops visit the two maps
\* in and whatever order the zone letters are listed in.
C18_RebuildDeterministic ==
    /\ \A byBase \in Orders(DOMAIN baseRegionZones),
          byTop \in Orders(DOMAIN topRegionZones) :
          rebuildIndices(baseRegionZones, topRegionZones, byBase, byTop)
            = [Regions |-> Regions, Zones |-> Zones]
    /\ \A base \in Relistings(baseRegionZones),
          top \in Relistings(topRegionZones) :
          rebuildIndices(base, top, InOrder(DOMAIN base), InOrder(DOMAIN top))
            = [Regions |-> Regions, Zones |-> Zones]

\* tables built from three regions, two of them pinned, with letters listed
\* out of order
C18_Witness ==
    /\ DOMAIN baseRegionZones = SampleRegions
    /\ DOMAIN topRegionZones = {"europe-west2", "us-central1"}
    /\ baseRegionZones["us-central1"] = <<"c", "a">>
    /\ Zones["us-central1-a"] < Zones["us-central1-c"]
    /\ Zones["us-central1-c"] < Zones["asia-east1-a"]
    /\ Regions["europe-west2"] < Regions["asia-east1"]

\* C19: with the catalogue and the pinned list of the source, every pinned
\* zone has a zone index in 0 .. 2^defaultBitsCluster - 1 = 0 .. 7, a cluster
\* id that fits the default number of cluster bits.
C19_PinnedFitDefaultBits ==
    (/\ baseRegionZones = baseRegionZonesBaked
     /\ topRegionZones = topRegionZonesBaked)
    => \A z \in PinnedZones :
          /\ z \in DOMAIN Zones
          /\ Zones[z] \in 0 .. 2 ^ defaultBitsCluster - 1

\* the tables of the source's catalogue: its eight pinned zones are numbered,
\* the last of them 7
C19_Witness ==
    /\ baseRegionZones = baseRegionZonesBaked
    /\ topRegionZones = topRegionZonesBaked
    /\ Cardinality(PinnedZones) = 8
    /\ Zones["us-central1-c"] = 6
    /\ Zones["us-west1-a"] = 7
    /\ Zones["africa-south1-b"] = 8

\* the catalogued zones: every letter of every region of the catalogue
CataloguedZones ==
    UNION { {ZoneName(r, l) : l \in Range(baseRegionZones[r])} :
            r \in DOMAIN baseRegionZones }

\* whether table gives the names of S the indices 0 .. n-1, each once
Numbers(table, S) ==
    /\ DOMAIN table = S
    /\ {table[x] : x \in S} = 0 .. Cardinality(S) - 1

\* C37: the zone table numbers exactly the catalogued zones, with the
\* indices 0 .. n-1 and each index once (a zone that is pinned as well, or
\* listed twice, has one index); the region table numbers exactly the
\* catalogued regions with 0 .. r-1, each once, the pinned ones first, and
\* in alphabetical order among the pinned and among the others.
C37_TablesAreBijections ==
    /\ Numbers(Zones, CataloguedZones)
    /\ Numbers(Regions, DOMAIN baseRegionZones)
    /\ \A a, b \in DOMAIN baseRegionZones :
          LET pinned(r) == r \in DOMAIN topRegionZones
          IN  /\ (pinned(a) /\ ~pinned(b)) => Regions[a] < Regions[b]
              /\ (pinned(a) = pinned(b) /\ Rank(a) < Rank(b))
                    => Regions[a] < Regions[b]

\* tables built from a catalogue of three regions, one of them listing a
\* letter twice, with a pinned region that comes last in the alphabet and a
\* pinned zone the catalogue holds
C37_Witness ==
    /\ DOMAIN baseRegionZones = SampleRegions
    /\ DOMAIN topRegionZones = {"us-central1"}
    /\ baseRegionZones["asia-east1"] = <<"a", "a">>
    /\ hasLetter(baseRegionZones["us-central1"], "c")
    /\ Regions["us-central1"] = 0
    /\ Zones["us-central1-a"] = 0
    /\ Cardinality(DOMAIN Zones) >= 4

-----------------------------------------------------------------------------
(* Properties of StatefulSetPod *)

\* the calls of PodID that have returned
PodIDsReturned == {c \in last : c.op = "PodID" /\ c.stage = "returned"}

\* the name sources of a call in the order they are asked; the OS hostname
\* yields a name only when the lookup succeeded
NameSources(c) ==
    << c.env.POD_NAME, c.env.HOSTNAME,
       IF c.host.err = NoErr THEN c.host.hn ELSE <<>> >>

\* the delimiter of a call: the configured one, "-" when none is configured
DelimiterOf(c) == IF c.p.Delimiter = <<>> THEN <<"-">> ELSE c.p.Delimiter

\* the text of a name after the last place the delimiter d stands in it
TextAfterLast(name, d) == SliceFrom(name, LastIndex(name, d) + Len(d))

\* C20: PodID takes the pod name from the first non-empty source in the
\* order POD_NAME, HOSTNAME, OS hostname, and returns the integer parsed
\* from the text after the last delimiter of the name; it returns
\* ErrPodNameNotFound when no source yields a name and ErrOrdinalNotFound
\* when the name has no delimiter, nothing after the last delimiter, or a
\* suffix that is not a number.
C20_PodIDParsesSuffix ==
    \A c \in PodIDsReturned :
        LET sources == NameSources(c)
            found == {i \in 1 .. 3 : sources[i] # <<>>}
            name == sources[CHOOSE i \in found : \A j \in found : i <= j]
            d == DelimiterOf(c)
            text == TextAfterLast(name, d)
        IN  IF found = {} THEN c.id = [n |-> 0, err |-> ErrPodNameNotFound]
            ELSE IF \/ LastIndex(name, d) < 0
                    \/ text = <<>>
                    \/ Atoi(text).err # NoErr
                 THEN c.id = [n |-> 0, err |-> ErrOrdinalNotFound]
            ELSE c.id = [n |-> Atoi(text).n, err |-> NoErr]

\* the calls of ClusterID that have returned
ClusterIDsReturned == {c \in last : c.op = "ClusterID" /\ c.stage = "returned"}

\* C21: ClusterID resolves the zone from the GCP_ZONE override, else the
\* ZONE override, else the answer of the metadata endpoint reduced to the
\* token after its last "/", and returns the index the zone table holds for
\* that zone; it returns ErrZoneNotFound whenever the resolved zone is empty
\* or absent from the table, and never an index for a zone not in the table.
\* When the metadata endpoint gives no answer there is no zone and no index.
C21_ClusterIDFromZone ==
    \A c \in ClusterIDsReturned :
        LET gz == TrimSpace(c.env.GCP_ZONE)
            z == TrimSpace(c.env.ZONE)
            zone == IF gz # <<>> THEN gz
                    ELSE IF z # <<>> THEN z
                    ELSE TextAfterLast(TrimSpace(c.meta.body), <<"/">>)
        IN  IF gz = <<>> /\ z = <<>> /\ ~c.meta.ok THEN c.id.err # NoErr
            ELSE IF zone = <<>> \/ Text(zone) \notin DOMAIN Zones
                 THEN c.id = [n |-> 0, err |-> ErrZoneNotFound]
            ELSE c.id = [n |-> Zones[Text(zone)], err |-> NoErr]

-----------------------------------------------------------------------------
(* Properties of the keygen service *)

\* the answered requests to /generate/v1
Generated == {r \in last : r.path = "/generate/v1"}

\* C22: each request to /generate/v1 calls NextKey exactly once, the key it
\* gets is the encoding of the ID the generator issued last, and the answer
\* that is written out whole has status 200 and exactly that key as its
\* body; when NextKey returns an error the answer has status 500 and its
\* body is the error text, with no key.
C22_OneKeyPerRequest ==
    \A r \in Generated :
        /\ r.calls = 1
        /\ r.key = NextKey(toID(kf))
        /\ r.key.err = NoErr /\ r.complete
              => /\ r.status = 200
                 /\ r.body = Encode(toID(kf).id)
        /\ r.key.err # NoErr
              => /\ r.status = 500
                 /\ r.key.key = <<>>
                 /\ r.body = <<"failed to generate key: ", r.key.err>>

\* a request to /generate/v1 was answered with a key of the generator after
\* its first
C22_Witness ==
    \E r \in Generated :
        /\ r.status = 200 /\ r.complete
        /\ toID(kf).id > 0
        /\ r.body = Encode(toID(kf).id)

\* whether construction from the flags and identities of c fails: a width
\* outside its limits, fewer than 32 time bits, or a provider error
ConstructionFails(c) ==
    LET s == [ BitsSequence |-> c.flags[1], BitsCluster |-> c.flags[2],
               BitsMachine |-> c.flags[3] ]
    IN  \/ ~SequenceBitsValid(s) \/ ~ClusterBitsValid(s) \/ ~MachineBitsValid(s)
        \/ c.flags[1] + c.flags[2] + c.flags[3] > 32
        \/ c.ids[1].err # NoErr
        \/ c.ids[2].err # NoErr

\* C23: when the construction of the generator fails with a configuration
\* error or an identity error, the keygen service does not listen and
\* answers no request; no request is answered unless the service listens;
\* and after a successful construction NextID returns no configuration
\* error, only an ID or ErrOverTimeLimit.
C23_NoServiceWithoutGenerator ==
    \A c \in made :
        /\ (c.stage # "starting" /\ ConstructionFails(c))
              => /\ c.stage = "exited"
                 /\ c.out.err # NoErr
                 /\ kf = NilKubeflake
        /\ c.stage # "listening" => last = {}
        /\ \A r \in last : r.key.err \in {NoErr, ErrOverTimeLimit}

\* main has returned because PodID found no ordinal
C23_Witness ==
    \E c \in made :
        /\ c.stage = "exited"
        /\ c.out.cause = ErrOrdinalNotFound
        /\ last = {}

\* C36: started with the default values of its flags and with identity
\* providers that succeed, newHandler builds the generator: main does not
\* exit with an error of New.
C36_DefaultFlagsAccepted ==
    \A c \in made :
        ( /\ c.stage # "starting"
          /\ c.flags = defaultFlags
          /\ c.ids[1].err = NoErr
          /\ c.ids[2].err = NoErr )
        => c.out.err = NoErr

----------------------------------------------------------------------------
(* Properties of the cache-aside client *)

\* what the underlying store's GetEntry returns for a key it holds
FromStore(key) == underlying[key]

\* C39: for a key the underlying store holds, a GetEntry answered from the
\* cache returns the URLEntry (target and creation time) that the underlying
\* store returns for that key.
C39_HitEqualsStore ==
    \A c \in last :
        (c.op = "GetEntry" /\ c.hit /\ c.key \in DOMAIN underlying) =>
            /\ c.err = NoErr
            /\ c.entry = FromStore(c.key)

============================================================================
